---- MODULE Spec2Model ----
(***************************************************************************)
(* Conversation state machine and expense reconciliation of the WhatsApp   *)
(* expense tracker: the two message routers (WhatsAppClient.handleMessage  *)
(* and server.ts routeMessage), ExpenseService and MongoService.           *)
(*                                                                         *)
(* Message bodies are sequences of one-character strings, so that the      *)
(* recognisers (regular expressions, includes, trim, toLowerCase,          *)
(* parseFloat) are computed on the text as the code computes them.         *)
(* Money is counted in thousandths of a currency unit (mills), so that     *)
(* Math.round(x * 100) / 100 is a real rounding step.                      *)
(***************************************************************************)
EXTENDS Integers, Sequences, FiniteSets, TLC

----------------------------------------------------------------------------
(* Characters and elementary string operations                             *)

Digits == {"0", "1", "2", "3", "4", "5", "6", "7", "8", "9"}

LowerSeq == <<"a", "b", "c", "d", "e", "f", "g", "h", "i", "j", "k", "l", "m", "n", "o", "p", "q", "r", "s", "t", "u", "v", "w", "x", "y", "z">>

UpperSeq == <<"A", "B", "C", "D", "E", "F", "G", "H", "I", "J", "K", "L", "M", "N", "O", "P", "Q", "R", "S", "T", "U", "V", "W", "X", "Y", "Z">>

LowerLetters == {LowerSeq[i] : i \in 1..Len(LowerSeq)}

UpperLetters == {UpperSeq[i] : i \in 1..Len(UpperSeq)}

Letters == LowerLetters \cup UpperLetters

\* \w of the regular expressions
WordChars == Letters \cup Digits \cup {"_"}

\* \s of the regular expressions (the sample bodies use blanks only)
Whitespace == {" "}

DigitVal(c) ==
  CASE c = "0" -> 0 [] c = "1" -> 1 [] c = "2" -> 2 [] c = "3" -> 3
    [] c = "4" -> 4 [] c = "5" -> 5 [] c = "6" -> 6 [] c = "7" -> 7
    [] c = "8" -> 8 [] c = "9" -> 9

LowerChar(c) ==
  IF c \in UpperLetters
    THEN LowerSeq[CHOOSE i \in 1..Len(UpperSeq) : UpperSeq[i] = c]
    ELSE c

RECURSIVE toLowerCase(_)
toLowerCase(s) ==
  IF Len(s) = 0 THEN << >> ELSE <<LowerChar(Head(s))>> \o toLowerCase(Tail(s))

trim(s) ==
  IF \A i \in 1..Len(s) : s[i] \in Whitespace
    THEN << >>
    ELSE LET start == CHOOSE i \in 1..Len(s) :
                        s[i] \notin Whitespace /\ \A k \in 1..(i-1) : s[k] \in Whitespace
             stop  == CHOOSE i \in 1..Len(s) :
                        s[i] \notin Whitespace /\ \A k \in (i+1)..Len(s) : s[k] \in Whitespace
         IN  SubSeq(s, start, stop)

\* sub occurs in s at position i (1-based)
OccursAt(s, sub, i) ==
  /\ i >= 1
  /\ i + Len(sub) - 1 <= Len(s)
  /\ SubSeq(s, i, i + Len(sub) - 1) = sub

includes(s, sub) == \E i \in 1..(Len(s) + 1) : OccursAt(s, sub, i)

startsWith(s, prefix) == OccursAt(s, prefix, 1)

\* index just after the longest run of characters of S that starts at i
RunEnd(s, i, S) ==
  CHOOSE j \in i..(Len(s) + 1) :
    /\ \A k \in i..(j-1) : s[k] \in S
    /\ (j = Len(s) + 1 \/ s[j] \notin S)

RECURSIVE DecVal(_)
\* value of a run of decimal digits (parseInt, and the integer part of parseFloat)
DecVal(s) ==
  IF Len(s) = 0 THEN 0
  ELSE 10 * DecVal(SubSeq(s, 1, Len(s) - 1)) + DigitVal(s[Len(s)])

\* thousandths denoted by the digits after a decimal separator
FracMills(s) ==
  LET d(i) == IF i <= Len(s) THEN DigitVal(s[i]) ELSE 0
  IN  100 * d(1) + 10 * d(2) + d(3)

\* end (exclusive) of a token \d+(?:[seps]\d+)? that starts at i; i if none
NumberEnd(s, i, seps) ==
  IF i > Len(s) \/ s[i] \notin Digits THEN i
  ELSE LET e == RunEnd(s, i, Digits)
       IN  IF e + 1 <= Len(s) /\ s[e] \in seps /\ s[e+1] \in Digits
             THEN RunEnd(s, e + 1, Digits)
             ELSE e

\* parseFloat of a token \d+(?:[.,]\d+)? (a "," already replaced by "."), in mills
NumberMills(tok) ==
  LET e == RunEnd(tok, 1, Digits)
  IN  1000 * DecVal(SubSeq(tok, 1, e - 1))
        + (IF e < Len(tok) THEN FracMills(SubSeq(tok, e + 1, Len(tok))) ELSE 0)

\* Math.round(x * 100) / 100 for x >= 0, on mills
RoundCents(mills) == ((mills + 5) \div 10) * 10

\* Math.round(x / n * 100) / 100 for n > 0, on mills: the quotient to the nearest
\* cent, a half rounded towards plus infinity
RoundCentsOfQuotient(mills, n) == ((2 * mills + 10 * n) \div (20 * n)) * 10

NaN == -1

\* parseFloat(text): the longest numeric prefix after leading blanks, NaN if none
parseFloat(s) ==
  LET b == RunEnd(s, 1, Whitespace)
      e == NumberEnd(s, b, {"."})
  IN  IF e = b THEN NaN ELSE NumberMills(SubSeq(s, b, e - 1))

----------------------------------------------------------------------------
(* CurrencyService                                                         *)

\* the alias table, in the order the object literal registers its keys
currencyMap ==
  << <<<<"u", "s", "d">>, "USD">>,
     <<<<"d", "o", "l", "l", "a", "r">>, "USD">>,
     <<<<"d", "o", "l", "l", "a", "r", "s">>, "USD">>,
     <<<<"u", "s", " ", "d", "o", "l", "l", "a", "r">>, "USD">>,
     <<<<"a", "m", "e", "r", "i", "c", "a", "n", " ", "d", "o", "l", "l", "a", "r">>, "USD">>,
     <<<<"e", "u", "r">>, "EUR">>,
     <<<<"e", "u", "r", "o">>, "EUR">>,
     <<<<"e", "u", "r", "o", "s">>, "EUR">>,
     <<<<"e", "u", "r", "o", "p", "e", "a", "n">>, "EUR">>,
     <<<<"g", "b", "p">>, "GBP">>,
     <<<<"p", "o", "u", "n", "d">>, "GBP">>,
     <<<<"p", "o", "u", "n", "d", "s">>, "GBP">>,
     <<<<"b", "r", "i", "t", "i", "s", "h", " ", "p", "o", "u", "n", "d">>, "GBP">>,
     <<<<"s", "t", "e", "r", "l", "i", "n", "g">>, "GBP">>,
     <<<<"i", "n", "r">>, "INR">>,
     <<<<"r", "u", "p", "e", "e">>, "INR">>,
     <<<<"r", "u", "p", "e", "e", "s">>, "INR">>,
     <<<<"i", "n", "d", "i", "a", "n", " ", "r", "u", "p", "e", "e">>, "INR">>,
     <<<<"i", "n", "d", "i", "a", "n", " ", "r", "u", "p", "e", "e", "s">>, "INR">>,
     <<<<"b", "d", "t">>, "BDT">>,
     <<<<"t", "a", "k", "a">>, "BDT">>,
     <<<<"t", "a", "k", "a", "s">>, "BDT">>,
     <<<<"b", "a", "n", "g", "l", "a", "d", "e", "s", "h", "i", " ", "t", "a", "k", "a">>, "BDT">>,
     <<<<"t", "k">>, "BDT">>,
     <<<<"n", "g", "n">>, "NGN">>,
     <<<<"n", "a", "i", "r", "a">>, "NGN">>,
     <<<<"n", "a", "i", "r", "a", "s">>, "NGN">>,
     <<<<"n", "i", "g", "e", "r", "i", "a", "n", " ", "n", "a", "i", "r", "a">>, "NGN">>,
     <<<<"n", "i", "g", "e", "r", "i", "a", "n", " ", "d", "o", "l", "l", "a", "r">>, "NGN">>,
     <<<<"p", "k", "r">>, "PKR">>,
     <<<<"p", "a", "k", "i", "s", "t", "a", "n", "i", " ", "r", "u", "p", "e", "e">>, "PKR">>,
     <<<<"p", "a", "k", "i", "s", "t", "a", "n", "i", " ", "r", "u", "p", "e", "e", "s">>, "PKR">>,
     <<<<"l", "k", "r">>, "LKR">>,
     <<<<"s", "r", "i", " ", "l", "a", "n", "k", "a", "n", " ", "r", "u", "p", "e", "e">>, "LKR">>,
     <<<<"s", "r", "i", " ", "l", "a", "n", "k", "a", "n", " ", "r", "u", "p", "e", "e", "s">>, "LKR">>,
     <<<<"c", "a", "d">>, "CAD">>,
     <<<<"c", "a", "n", "a", "d", "i", "a", "n", " ", "d", "o", "l", "l", "a", "r">>, "CAD">>,
     <<<<"c", "a", "n", "a", "d", "i", "a", "n", " ", "d", "o", "l", "l", "a", "r", "s">>, "CAD">>,
     <<<<"a", "u", "d">>, "AUD">>,
     <<<<"a", "u", "s", "t", "r", "a", "l", "i", "a", "n", " ", "d", "o", "l", "l", "a", "r">>, "AUD">>,
     <<<<"a", "u", "s", "t", "r", "a", "l", "i", "a", "n", " ", "d", "o", "l", "l", "a", "r", "s">>, "AUD">>,
     <<<<"j", "p", "y">>, "JPY">>,
     <<<<"y", "e", "n">>, "JPY">>,
     <<<<"j", "a", "p", "a", "n", "e", "s", "e", " ", "y", "e", "n">>, "JPY">>,
     <<<<"c", "n", "y">>, "CNY">>,
     <<<<"y", "u", "a", "n">>, "CNY">>,
     <<<<"c", "h", "i", "n", "e", "s", "e", " ", "y", "u", "a", "n">>, "CNY">>,
     <<<<"r", "m", "b">>, "CNY">>,
     <<<<"k", "r", "w">>, "KRW">>,
     <<<<"w", "o", "n">>, "KRW">>,
     <<<<"k", "o", "r", "e", "a", "n", " ", "w", "o", "n">>, "KRW">>,
     <<<<"t", "h", "b">>, "THB">>,
     <<<<"b", "a", "h", "t">>, "THB">>,
     <<<<"t", "h", "a", "i", " ", "b", "a", "h", "t">>, "THB">>,
     <<<<"m", "y", "r">>, "MYR">>,
     <<<<"r", "i", "n", "g", "g", "i", "t">>, "MYR">>,
     <<<<"m", "a", "l", "a", "y", "s", "i", "a", "n", " ", "r", "i", "n", "g", "g", "i", "t">>, "MYR">>,
     <<<<"s", "g", "d">>, "SGD">>,
     <<<<"s", "i", "n", "g", "a", "p", "o", "r", "e", " ", "d", "o", "l", "l", "a", "r">>, "SGD">>,
     <<<<"s", "i", "n", "g", "a", "p", "o", "r", "e", "a", "n", " ", "d", "o", "l", "l", "a", "r">>, "SGD">>,
     <<<<"h", "k", "d">>, "HKD">>,
     <<<<"h", "o", "n", "g", " ", "k", "o", "n", "g", " ", "d", "o", "l", "l", "a", "r">>, "HKD">>,
     <<<<"p", "h", "p">>, "PHP">>,
     <<<<"p", "e", "s", "o">>, "PHP">>,
     <<<<"p", "e", "s", "o", "s">>, "PHP">>,
     <<<<"p", "h", "i", "l", "i", "p", "p", "i", "n", "e", " ", "p", "e", "s", "o">>, "PHP">>,
     <<<<"i", "d", "r">>, "IDR">>,
     <<<<"r", "u", "p", "i", "a", "h">>, "IDR">>,
     <<<<"i", "n", "d", "o", "n", "e", "s", "i", "a", "n", " ", "r", "u", "p", "i", "a", "h">>, "IDR">>,
     <<<<"v", "n", "d">>, "VND">>,
     <<<<"d", "o", "n", "g">>, "VND">>,
     <<<<"v", "i", "e", "t", "n", "a", "m", "e", "s", "e", " ", "d", "o", "n", "g">>, "VND">> >>

NoCurrency == "none"

\* first token matching /\b[A-Z]{3}\b/ in text, << >> if none
IsoToken(text) ==
  LET isTok(i) ==
        /\ i + 2 <= Len(text)
        /\ \A k \in i..(i+2) : text[k] \in UpperLetters
        /\ (i = 1 \/ text[i-1] \notin WordChars)
        /\ (i + 2 = Len(text) \/ text[i+3] \notin WordChars)
  IN  IF \E i \in 1..Len(text) : isTok(i)
        THEN LET i == CHOOSE i \in 1..Len(text) :
                        isTok(i) /\ \A k \in 1..(i-1) : ~isTok(k)
             IN  SubSeq(text, i, i + 2)
        ELSE << >>

\* the codes of the table (Object.values) with their spelling
codeText ==
  << <<"USD", <<"U", "S", "D">>>>,
     <<"EUR", <<"E", "U", "R">>>>,
     <<"GBP", <<"G", "B", "P">>>>,
     <<"INR", <<"I", "N", "R">>>>,
     <<"BDT", <<"B", "D", "T">>>>,
     <<"NGN", <<"N", "G", "N">>>>,
     <<"PKR", <<"P", "K", "R">>>>,
     <<"LKR", <<"L", "K", "R">>>>,
     <<"CAD", <<"C", "A", "D">>>>,
     <<"AUD", <<"A", "U", "D">>>>,
     <<"JPY", <<"J", "P", "Y">>>>,
     <<"CNY", <<"C", "N", "Y">>>>,
     <<"KRW", <<"K", "R", "W">>>>,
     <<"THB", <<"T", "H", "B">>>>,
     <<"MYR", <<"M", "Y", "R">>>>,
     <<"SGD", <<"S", "G", "D">>>>,
     <<"HKD", <<"H", "K", "D">>>>,
     <<"PHP", <<"P", "H", "P">>>>,
     <<"IDR", <<"I", "D", "R">>>>,
     <<"VND", <<"V", "N", "D">>>> >>

\* the code an ISO token spells, NoCurrency if it is not a value of the table
IsoCode(tok) ==
  IF \E i \in 1..Len(codeText) : codeText[i][2] = tok
    THEN codeText[CHOOSE i \in 1..Len(codeText) : codeText[i][2] = tok][1]
    ELSE NoCurrency

\* the aliases contained in the normalized text, by position in the table
AliasesIn(normalizedText) ==
  { i \in 1..Len(currencyMap) : includes(normalizedText, currencyMap[i][1]) }

\* the least element of a non-empty set of positions
First(S) == CHOOSE i \in S : \A k \in S : i <= k

detectCurrency(text) ==
  LET normalizedText == trim(toLowerCase(text))
      exact          == { i \in 1..Len(currencyMap) : currencyMap[i][1] = normalizedText }
      partial        == AliasesIn(normalizedText)
  IN  IF exact # {} THEN currencyMap[First(exact)][2]
      ELSE IF partial # {} THEN currencyMap[First(partial)][2]
      ELSE IF IsoToken(text) # << >> THEN IsoCode(IsoToken(text))
      ELSE NoCurrency

\* calculateDynamicDailyLimit with the divisor not counting today
calculateDynamicDailyLimitExclusive(remainingBudget, date, lastDayOfMonth) ==
  LET remainingDays == lastDayOfMonth - date
  IN  IF remainingDays <= 0 THEN 0
      ELSE RoundCentsOfQuotient(remainingBudget, remainingDays)

\* calculateDynamicDailyLimit(remainingBudget) on day `date` of a month whose
\* last day is lastDayOfMonth
calculateDynamicDailyLimit(remainingBudget, date, lastDayOfMonth) ==
  LET remainingDays == lastDayOfMonth - date + 1
  IN  IF remainingDays <= 0 THEN 0
      ELSE RoundCentsOfQuotient(remainingBudget, remainingDays)

----------------------------------------------------------------------------
(* ExpenseService.extractExpenseData: the text expense parser              *)

RECURSIVE CollapseSpaces(_)
\* item.replace(/\s{2,}/g, ' ')
CollapseSpaces(s) ==
  IF Len(s) <= 1 THEN s
  ELSE IF s[1] \in Whitespace /\ s[2] \in Whitespace
         THEN CollapseSpaces(<<" ">> \o SubSeq(s, 3, Len(s)))
         ELSE <<s[1]>> \o CollapseSpaces(SubSeq(s, 2, Len(s)))

\* start of the run of characters of S that ends at j
RunStart(s, j, S) ==
  CHOOSE i \in 1..j :
    /\ \A k \in i..j : s[k] \in S
    /\ (i = 1 \/ s[i-1] \notin S)

HasDigit(s) == \E i \in 1..Len(s) : s[i] \in Digits

HasLetter(s) == \E i \in 1..Len(s) : s[i] \in Letters

\* the match of /(\d+(?:[\.,]\d+)?)(?!.*\d)/: <<index of its first character, of its last>>
LastNumber(s) ==
  LET final == CHOOSE j \in 1..Len(s) :
                s[j] \in Digits /\ \A k \in (j+1)..Len(s) : s[k] \notin Digits
      r2   == RunStart(s, final, Digits)
  IN  IF r2 >= 3 /\ s[r2-1] \in {".", ","} /\ s[r2-2] \in Digits
        THEN <<RunStart(s, r2 - 2, Digits), final>>
        ELSE <<r2, final>>

RECURSIVE ReplaceComma(_)
\* replace(',', '.') on a number token, which holds one separator at most
ReplaceComma(s) ==
  IF Len(s) = 0 THEN << >>
  ELSE <<IF Head(s) = "," THEN "." ELSE Head(s)>> \o ReplaceComma(Tail(s))

ItemDefault == <<"I", "t", "e", "m">>

NoExpense == [ok |-> FALSE]

\* a parser that names the item by the text after the number before the text before it
extractExpenseDataAfterFirst(text, day) ==
  LET normalized == trim(text)
  IN  IF normalized = << >> \/ ~HasDigit(normalized) THEN NoExpense
      ELSE LET m        == LastNumber(normalized)
               rawPrice == ReplaceComma(SubSeq(normalized, m[1], m[2]))
               price    == NumberMills(rawPrice)
               before   == trim(SubSeq(normalized, 1, m[1] - 1))
               after    == trim(SubSeq(normalized, m[2] + 1, Len(normalized)))
               item0    == IF after # << >> THEN after
                           ELSE IF before # << >> THEN before ELSE ItemDefault
               detected == detectCurrency(normalized)
           IN  [ok       |-> TRUE,
                item     |-> trim(CollapseSpaces(item0)),
                price    |-> price,
                currency |-> IF detected # NoCurrency THEN detected ELSE "USD",
                date     |-> day]

\* extractExpenseData(text) on the processing day `day`
extractExpenseData(text, day) ==
  LET normalized == trim(text)
  IN  IF normalized = << >> \/ ~HasDigit(normalized) THEN NoExpense
      ELSE LET m        == LastNumber(normalized)
               rawPrice == ReplaceComma(SubSeq(normalized, m[1], m[2]))
               price    == NumberMills(rawPrice)
               before   == trim(SubSeq(normalized, 1, m[1] - 1))
               after    == trim(SubSeq(normalized, m[2] + 1, Len(normalized)))
               item0    == IF before # << >> THEN before
                           ELSE IF after # << >> THEN after ELSE ItemDefault
               detected == detectCurrency(normalized)
           IN  [ok       |-> TRUE,
                item     |-> trim(CollapseSpaces(item0)),
                price    |-> price,
                currency |-> IF detected # NoCurrency THEN detected ELSE "USD",
                date     |-> day]

----------------------------------------------------------------------------
(* Command recognisers of the two routers                                  *)

exportPhrases ==
  { <<"s", "e", "n", "d", " ", "e", "x", "p", "e", "n", "s", "e", " ", "i", "n", "f", "o">>,
    <<"g", "i", "v", "e", " ", "e", "x", "c", "e", "l", " ", "f", "i", "l", "e">>,
    <<"g", "i", "v", "e", " ", "m", "y", " ", "e", "x", "p", "e", "n", "s", "e", " ", "d", "a", "t", "a">>,
    <<"e", "x", "p", "n", "e", "s", "e", " ", "i", "n", " ", "e", "x", "c", "e", "l">>,
    <<"e", "x", "p", "n", "e", "s", "e", " ", "i", "n", " ", "s", "h", "e", "e", "t">>,
    <<"e", "x", "c", "e", "l", " ", "s", "h", "e", "e", "t">>,
    <<"g", "o", "o", "g", "l", "e", " ", "s", "h", "e", "e", "t", "s">>,
    <<"m", "o", "n", "t", "h", "l", "y", " ", "s", "p", "e", "n", "d", " ", "d", "a", "t", "a">>,
    <<"f", "u", "l", "l", " ", "e", "x", "p", "e", "n", "s", "e", " ", "d", "a", "t", "a">>,
    <<"a", "l", "l", " ", "e", "x", "p", "e", "n", "s", "e">> }

serverExportPhrases == { <<"t", "h", "i", "s", " ", "m", "o", "n", "t", "h">>, <<"t", "h", "i", "s", " ", "y", "e", "a", "r">> }

txtHelp == <<"h", "e", "l", "p">>

txtReport == <<"r", "e", "p", "o", "r", "t">>

txtBudget == <<"b", "u", "d", "g", "e", "t">>

txtCurrency == <<"c", "u", "r", "r", "e", "n", "c", "y">>

txtCorrection == <<"n", "o", " ", "i", "t", " ", "w", "i", "l", "l", " ", "b", "e">>

txtCorrectionSp == <<"n", "o", " ", "i", "t", " ", "w", "i", "l", "l", " ", "b", "e", " ">>

txtEdit == <<"e", "d", "i", "t">>

txtEditSp == <<"e", "d", "i", "t", " ">>

txtDelete == <<"d", "e", "l", "e", "t", "e">>

txtYes == <<"y", "e", "s">>

txtY == <<"y">>

txtNo == <<"n", "o">>

txtN == <<"n">>

IsExportPhrase(text) == \E p \in exportPhrases : includes(text, p)

IsServerExportPhrase(text) ==
  \/ IsExportPhrase(text)
  \/ text = txtReport
  \/ \E p \in serverExportPhrases : includes(text, p)

\* word, then \s+, then a digit, with the word at position i
CmdNumberAt(s, word, i) ==
  /\ OccursAt(s, word, i)
  /\ LET w == i + Len(word)
     IN  /\ w <= Len(s) /\ s[w] \in Whitespace
         /\ LET n == RunEnd(s, w, Whitespace) IN n <= Len(s) /\ s[n] \in Digits

\* /^budget\s+\d+/i
IsBudgetCmd(text) == CmdNumberAt(text, txtBudget, 1)

\* /^currency\s+\w+/i
IsCurrencyCmd(text) ==
  /\ startsWith(text, txtCurrency)
  /\ LET w == Len(txtCurrency) + 1
     IN  /\ w <= Len(text) /\ text[w] \in Whitespace
         /\ LET n == RunEnd(text, w, Whitespace) IN n <= Len(text) /\ text[n] \in WordChars

\* index just after the prefix #\d+ of s, 0 if s has no such prefix
RefEnd(s) ==
  IF Len(s) >= 2 /\ s[1] = "#" /\ s[2] \in Digits THEN RunEnd(s, 2, Digits) ELSE 0

\* /^#\d+\s+(edit\s+\d+|[\w\s]+\s+\d+)/
IsEditCmd(text) ==
  LET p == RefEnd(text)
  IN  /\ p # 0 /\ p <= Len(text) /\ text[p] \in Whitespace
      /\ \/ CmdNumberAt(text, txtEdit, RunEnd(text, p, Whitespace))
         \/ \E dd \in (p + 3)..Len(text) :
              /\ text[dd] \in Digits
              /\ text[dd - 1] \in Whitespace
              /\ \A k \in (p + 1)..(dd - 2) : text[k] \in WordChars \cup Whitespace

\* /^#\d+\s+delete/i
IsDeleteCmd(text) ==
  LET p == RefEnd(text)
  IN  /\ p # 0 /\ p <= Len(text) /\ text[p] \in Whitespace
      /\ OccursAt(text, txtDelete, RunEnd(text, p, Whitespace))

\* the capture of /word\s+(\d+(?:\.\d+)?)/i in body, in mills; NaN if no match
CmdNumber(body, word) ==
  LET s     == toLowerCase(body)
      at(i) == CmdNumberAt(s, word, i)
  IN  IF \E i \in 1..Len(s) : at(i)
        THEN LET i == CHOOSE i \in 1..Len(s) : at(i) /\ \A k \in 1..(i-1) : ~at(k)
                 n == RunEnd(s, i + Len(word), Whitespace)
             IN  NumberMills(SubSeq(s, n, NumberEnd(s, n, {"."}) - 1))
        ELSE NaN

\* the capture of /currency\s+(\w+)/i in body
CurrencyWord(body) ==
  LET s     == toLowerCase(body)
      at(i) == /\ OccursAt(s, txtCurrency, i)
               /\ LET w == i + Len(txtCurrency)
                  IN  /\ w <= Len(s) /\ s[w] \in Whitespace
                      /\ LET n == RunEnd(s, w, Whitespace)
                         IN  n <= Len(s) /\ s[n] \in WordChars
      i     == CHOOSE i \in 1..Len(s) : at(i) /\ \A k \in 1..(i-1) : ~at(k)
      n     == RunEnd(s, i + Len(txtCurrency), Whitespace)
  IN  SubSeq(body, n, RunEnd(body, n, WordChars) - 1)

\* the captures of /^#(\d+)\s+(.*)/i: <<parseInt of the digits, the rest trimmed>>
RefParts(body) ==
  LET p == RefEnd(body)
  IN  <<DecVal(SubSeq(body, 2, p - 1)),
        trim(SubSeq(body, RunEnd(body, p, Whitespace), Len(body)))>>

\* response.toLowerCase().trim() is one of the four confirmation words
IsYes(body) == trim(toLowerCase(body)) \in {txtYes, txtY}

IsNo(body) == trim(toLowerCase(body)) \in {txtNo, txtN}

\* the capture of /no it will be (.+)/i in body, trimmed; empty if there is no match
CorrectionText(body) ==
  LET s     == toLowerCase(body)
      at(i) == OccursAt(s, txtCorrectionSp, i) /\ i + Len(txtCorrectionSp) <= Len(s)
  IN  IF \E i \in 1..Len(s) : at(i)
        THEN LET i == CHOOSE i \in 1..Len(s) : at(i) /\ \A k \in 1..(i-1) : ~at(k)
             IN  trim(SubSeq(body, i + Len(txtCorrectionSp), Len(body)))
        ELSE << >>

----------------------------------------------------------------------------
(* Bounds and sample inputs                                                *)

Users == {"u1", "u2"}

\* the user whose messages the specifications of one user's flows follow
Senders == {"u1"}

\* cap on the value a user's sequence counter may reach
MaxSeq == 2

\* months the clock runs through
MaxMonth == 2

\* adds in flight between getNextExpenseNumber and Expense.create
MaxInflight == 1

\* how many handlers may be suspended between two storage calls at a time
MaxSuspended == 2

\* deliveries followed past the size at which a router first trims its processed set
MaxPastTrim == 3

bBDT == <<"B", "D", "T">>

b100 == <<"1", "0", "0">>

b100Bang == <<"1", "0", "0", "!">>

bCoffee == <<"C", "o", "f", "f", "e", "e", " ", "1", "2", "0">>

bBudget == <<"b", "u", "d", "g", "e", "t", " ", "1", "0", "0">>

bCurrency == <<"C", "u", "r", "r", "e", "n", "c", "y", " ", "b", "d", "t">>

bCurrencyXyz == <<"c", "u", "r", "r", "e", "n", "c", "y", " ", "x", "y", "z">>

bCurrencyEur == <<"c", "u", "r", "r", "e", "n", "c", "y", " ", "e", "u", "r">>

bTeaEur == <<"T", "e", "a", " ", "5", ".", "1", "2", "9", " ", "e", "u", "r">>

bHelp == <<"H", "e", "l", "p">>

bReport == <<"r", "e", "p", "o", "r", "t">>

bExcel == <<"e", "x", "c", "e", "l", " ", "s", "h", "e", "e", "t">>

bCorrection == <<"N", "o", " ", "i", "t", " ", "w", "i", "l", "l", " ", "b", "e", " ", "T", "e", "a", " ", "9", ".", "9", "9", "9">>

bEditPrice == <<"#", "1", " ", "E", "d", "i", "t", " ", "1", "5", "0">>

bDelete == <<"#", "0", "0", "1", " ", "D", "e", "l", "e", "t", "e">>

bDeleteNote == <<"#", "1", " ", "d", "e", "l", "e", "t", "e", " ", "5", ".", "1", "2", "9">>

bOops == <<"#", "1", " ", "o", "o", "p", "s">>

bYes == <<" ", "Y", "e", "s", " ">>

bY == <<"y">>

bNo == <<"N", "O">>

bN == <<" ", "n">>

bMaybe == <<"m", "a", "y", "b", "e">>

cNone == <<>>

cFood == <<"F", "o", "o", "d">>

cTea == <<"T", "e", "a", " ", "9", ".", "9", "9", "9">>


ocrItem == <<"G", "r", "o", "c", "e", "r", "i", "e", "s">>

\* the extractor's reply to a message that carries no image
NoOcr == [error |-> TRUE, item |-> << >>, price |-> 0, currency |-> NoCurrency, confidence |-> 0]

\* a reply of the image extractor's language model, as parsed JSON: an error reply
\* or an expense reply, each with the confidence it states; the price is the
\* number read from the receipt, in thousandths
OcrError(c) == [NoOcr EXCEPT !.confidence = c]

OcrExpense(c) ==
  [error |-> FALSE, item |-> ocrItem, price |-> 80129, currency |-> "USD", confidence |-> c]

Text(b) == [body |-> b, media |-> "none", ocr |-> NoOcr]

Image(c, r) == [body |-> c, media |-> "image", ocr |-> r]

\* the inbound messages tried: texts, images with and without a caption, a document
MessageList ==
  << Text(bBDT), Text(b100), Text(bCoffee), Text(bBudget), Text(bCurrency),
     Text(bHelp),
     Text(bReport), Text(bExcel), Text(bCorrection), Text(bEditPrice), Text(bDelete),
     Text(bDeleteNote), Text(bOops),
     Text(bYes), Text(bY), Text(bNo), Text(bN), Text(bMaybe),
     Image(cNone, OcrError(0)), Image(cNone, OcrError(60)), Image(cNone, OcrError(90)),
     Image(cNone, OcrExpense(49)), Image(cNone, OcrExpense(50)),
     Image(cNone, OcrExpense(84)), Image(cNone, OcrExpense(85)),
     Image(cFood, OcrError(0)),
     Image(cTea, OcrError(0)), Image(cTea, OcrExpense(50)), Image(cTea, OcrExpense(85)),
     [body |-> cNone, media |-> "document", ocr |-> NoOcr] >>

\* the inbound texts tried on the currency flows: onboarding answers, currency
\* commands with a second currency, the confirmation replies and two adds
CurrencyMessageList ==
  << Text(bBDT), Text(b100), Text(b100Bang), Text(bCurrency), Text(bCurrencyEur),
     Text(bCurrencyXyz),
     Text(bYes), Text(bY), Text(bNo), Text(bN), Text(bMaybe),
     Text(bCoffee), Text(bTeaEur) >>

\* the inbound messages tried with two users side by side
UserMessageList ==
  << Text(bBDT), Text(b100), Text(bBudget), Text(bEditPrice), Text(bDelete),
     Text(bYes), Image(cNone, OcrExpense(50)) >>

\* remaining budgets tried, in thousandths: over budget, nothing left, a cent,
\* amounts that do and do not divide evenly
RemainingSamples == {-50000, 0, 10, 1000, 19870, 100000, 99990}

\* the last day of a month: 28 to 31
LastDays == 28..31

\* longest text the parser is applied to
MaxText == 5

\* the characters of those texts: a letter, a space, two digits, the two separators
TextChars == {"a", " ", "1", "2", ".", ","}

----------------------------------------------------------------------------
(* State                                                                   *)

VARIABLES
  router,     \* which message router the deployment runs: "client" or "server"
  today,      \* the processing day, [month, day]
  users,      \* User collection: one document per user id, or none
  counters,   \* Counter collection: seq of the key expense_number:<user>, 0 if absent
  expenses,   \* Expense collection, in insertion order
  budgets,    \* Budget collection, in insertion order
  inflight,   \* text adds that hold a number and have not yet run Expense.create
  issued,     \* history: per user, the numbers given to the adds that stored a record, in issuance order
  deleted,    \* history: per user, the numbers of the records deleted so far
  last,       \* history: the message handled last and the reply it produced
  processed,  \* the routers' set of processed message ids, in insertion order
  dispatched, \* history: the message ids handed to the router, in order
  suspended,  \* handlers suspended at an await between two storage calls
  evaluated   \* the pure function applied last: its name, arguments and result

vars == <<router, today, users, counters, expenses, budgets, inflight,
          issued, deleted, last, processed, dispatched, suspended, evaluated>>

NotEvaluated == [fn |-> "none", args |-> << >>, result |-> 0]

\* what the handlers taken as one step leave alone
outside == <<processed, dispatched, suspended, evaluated>>

States ==
  { "new", "awaiting_currency", "awaiting_budget", "active",
    "awaiting_ocr_confirmation", "awaiting_currency_change" }

NoDoc ==
  [exists |-> FALSE, state |-> "new", currency |-> NoCurrency,
   pendingExpense |-> NoExpense, pendingCurrency |-> NoCurrency]

----------------------------------------------------------------------------
(* MongoService                                                            *)

\* the document an upsert updates: the stored one, or a fresh one with the schema defaults
UpsertBase(us, u) == IF us[u].exists THEN us[u] ELSE [NoDoc EXCEPT !.exists = TRUE]

getUserState(us, u) == IF us[u].exists THEN us[u].state ELSE "new"

\* a state write that stores active whatever state it is given
setUserStateActive(us, u, s) == [us EXCEPT ![u] = [UpsertBase(us, u) EXCEPT !.state = "active"]]

setUserState(us, u, s) == [us EXCEPT ![u] = [UpsertBase(us, u) EXCEPT !.state = s]]

\* a currency write that stores the state and not the currency
setUserCurrencyDropped(us, u, c) ==
  [us EXCEPT ![u] = [UpsertBase(us, u) EXCEPT !.state = "active"]]

setUserCurrency(us, u, c) ==
  [us EXCEPT ![u] = [UpsertBase(us, u) EXCEPT !.currency = c, !.state = "active"]]

\* getUserCurrency answering the default whatever is stored
getUserCurrencyDefault(us, u) == "USD"

getUserCurrency(us, u) ==
  IF us[u].exists /\ us[u].currency # NoCurrency THEN us[u].currency ELSE "USD"

\* the draft stored without the move to awaiting_ocr_confirmation
storePendingExpenseKeepState(us, u, expense) ==
  [us EXCEPT ![u] = [UpsertBase(us, u) EXCEPT !.pendingExpense = expense]]

storePendingExpense(us, u, expense) ==
  [us EXCEPT ![u] = [UpsertBase(us, u) EXCEPT !.pendingExpense = expense,
                                              !.state = "awaiting_ocr_confirmation"]]

\* stores the zero-price draft of a low-confidence image; the user stays where they are
storePendingImageExpenseDraft(us, u, draft) ==
  [us EXCEPT ![u] = [UpsertBase(us, u) EXCEPT !.pendingExpense = draft]]

getPendingExpense(us, u) == IF us[u].exists THEN us[u].pendingExpense ELSE NoExpense

clearPendingExpense(us, u) ==
  IF us[u].exists
    THEN [us EXCEPT ![u] = [us[u] EXCEPT !.pendingExpense = NoExpense, !.state = "active"]]
    ELSE us

\* a staging write that also commits the currency at once
setPendingCurrencyCommitted(us, u, c) ==
  [us EXCEPT ![u] = [UpsertBase(us, u) EXCEPT !.pendingCurrency = c,
                                              !.currency = c,
                                              !.state = "awaiting_currency_change"]]

setPendingCurrency(us, u, c) ==
  [us EXCEPT ![u] = [UpsertBase(us, u) EXCEPT !.pendingCurrency = c,
                                              !.state = "awaiting_currency_change"]]

getPendingCurrency(us, u) == IF us[u].exists THEN us[u].pendingCurrency ELSE NoCurrency

\* confirmCurrencyChange without the $unset of the pending currency
confirmCurrencyChangeKeepPending(us, u) ==
  LET newCurrency == getPendingCurrency(us, u)
  IN  IF newCurrency = NoCurrency THEN <<us, NoCurrency>>
      ELSE <<[us EXCEPT ![u] = [us[u] EXCEPT !.currency = newCurrency,
                                             !.state = "active"]],
             newCurrency>>

\* <<the users after the call, the value returned>>
confirmCurrencyChange(us, u) ==
  LET newCurrency == getPendingCurrency(us, u)
  IN  IF newCurrency = NoCurrency THEN <<us, NoCurrency>>
      ELSE <<[us EXCEPT ![u] = [us[u] EXCEPT !.currency = newCurrency,
                                             !.pendingCurrency = NoCurrency,
                                             !.state = "active"]],
             newCurrency>>

clearPendingCurrency(us, u) ==
  IF us[u].exists
    THEN [us EXCEPT ![u] = [us[u] EXCEPT !.pendingCurrency = NoCurrency, !.state = "active"]]
    ELSE us

\* the counter created by the upsert and never incremented afterwards
getNextExpenseNumberSetOnInsert(seq) == IF seq = 0 THEN 1 ELSE seq

\* findOneAndUpdate({key}, {$inc: {seq: 1}}, {upsert, new}): the incremented value
getNextExpenseNumber(seq) == seq + 1

BudgetIndex(bs, u, month) ==
  IF \E i \in 1..Len(bs) : bs[i].userId = u /\ bs[i].month = month
    THEN CHOOSE i \in 1..Len(bs) :
           /\ bs[i].userId = u /\ bs[i].month = month
           /\ \A k \in 1..(i-1) : ~(bs[k].userId = u /\ bs[k].month = month)
    ELSE 0

setMonthlyBudgetWithCurrency(bs, u, month, budget, currency) ==
  LET i == BudgetIndex(bs, u, month)
  IN  IF i # 0
        THEN [bs EXCEPT ![i] = [bs[i] EXCEPT !.budget = budget, !.currency = currency]]
        ELSE Append(bs, [userId |-> u, month |-> month, budget |-> budget,
                         currency |-> currency])

getMonthlyBudget(bs, u, month) ==
  LET i == BudgetIndex(bs, u, month) IN IF i # 0 THEN bs[i].budget ELSE 0

RECURSIVE SumPrices(_)
SumPrices(es) == IF Len(es) = 0 THEN 0 ELSE es[1].price + SumPrices(Tail(es))

\* the records of user u whose date starts with the year-month of `date`
MonthRecords(es, u, date) ==
  LET inMonth(e) == e.userId = u /\ e.date.month = date.month
  IN  SelectSeq(es, inMonth)

calculateMonthlyTotal(es, u, date) ==
  LET found == MonthRecords(es, u, date)
  IN  [month        |-> date.month,
       totalAmount  |-> RoundCents(SumPrices(found)),
       currency     |-> IF Len(found) > 0 THEN found[1].currency ELSE "USD",
       expenseCount |-> Len(found)]

\* a lookup by user alone: index of the first record of user u, 0 if there is none
FindByUserOnly(es, u, n) ==
  IF \E i \in 1..Len(es) : es[i].userId = u
    THEN CHOOSE i \in 1..Len(es) :
           /\ es[i].userId = u
           /\ \A k \in 1..(i-1) : es[k].userId # u
    ELSE 0

\* a lookup by number alone: index of the first record numbered n of any user
FindByNumberOnly(es, u, n) ==
  IF \E i \in 1..Len(es) : es[i].number = n
    THEN CHOOSE i \in 1..Len(es) :
           /\ es[i].number = n
           /\ \A k \in 1..(i-1) : es[k].number # n
    ELSE 0

\* index of the first record of user u numbered n, 0 if there is none
FindByNumber(es, u, n) ==
  IF \E i \in 1..Len(es) : es[i].userId = u /\ es[i].number = n
    THEN CHOOSE i \in 1..Len(es) :
           /\ es[i].userId = u /\ es[i].number = n
           /\ \A k \in 1..(i-1) : ~(es[k].userId = u /\ es[k].number = n)
    ELSE 0

\* a removal that drops the record at i and every record after it
RemoveFrom(s, i) == SubSeq(s, 1, i - 1)

RemoveAt(s, i) == SubSeq(s, 1, i - 1) \o SubSeq(s, i + 1, Len(s))

\* the document Expense.create stores
ExpenseDoc(u, expense, number) ==
  [userId |-> u, item |-> expense.item, price |-> expense.price,
   currency |-> expense.currency, date |-> expense.date, number |-> number]

----------------------------------------------------------------------------
(* ExpenseService: what the handlers compute from a message                *)

NoDate == [month |-> 0, day |-> 0]

\* extractExpenseWithConfidence on the language model's parsed reply
extractExpenseWithConfidence(parsed, day) ==
  IF parsed.error \/ parsed.item = << >> \/ parsed.price = 0
    THEN [expense |-> NoExpense, confidence |-> parsed.confidence]
    ELSE [expense    |-> [ok |-> TRUE, item |-> parsed.item, price |-> parsed.price,
                          currency |-> IF parsed.currency # NoCurrency THEN parsed.currency
                                       ELSE "USD",
                          date |-> day],
          confidence |-> IF parsed.confidence # 0 THEN parsed.confidence ELSE 50]

\* the gate of processImageMessage, on a confidence in hundredths
confidenceGate(confidence) ==
  IF confidence >= 85 THEN "auto_save"
  ELSE IF confidence >= 50 THEN "confirm"
  ELSE "clarify"

\* caption.trim().substring(0, 50) of a caption without a digit, else empty
captionNameHint(caption) ==
  IF trim(caption) # << >> /\ ~HasDigit(caption)
    THEN SubSeq(trim(caption), 1, IF Len(trim(caption)) < 50 THEN Len(trim(caption)) ELSE 50)
    ELSE << >>

\* { ...expense, currency: userCurrency } of handleUncertainOCR
PendingOf(expense, userCurrency) ==
  IF expense.ok THEN [expense EXCEPT !.currency = userCurrency]
  ELSE [ok |-> TRUE, item |-> << >>, price |-> NaN, currency |-> userCurrency,
        date |-> NoDate]

\* an edit that takes the price from the text after #N and never the item
EditContentPriceOnly(editContent) ==
  LET expenseData == extractExpenseData(editContent, NoDate)
  IN  IF expenseData.ok THEN <<TRUE, << >>, expenseData.price>> ELSE <<FALSE, << >>, NaN>>

\* what handleExpenseEdit makes of the text after #N: <<ok, item or empty, price>>
EditContent(editContent) ==
  IF startsWith(toLowerCase(editContent), txtEditSp)
    THEN LET price == CmdNumber(editContent, txtEdit)
         IN  <<price # NaN, << >>, price>>
    ELSE LET expenseData == extractExpenseData(editContent, NoDate)
         IN  IF expenseData.ok THEN <<TRUE, expenseData.item, expenseData.price>>
             ELSE <<FALSE, << >>, NaN>>

----------------------------------------------------------------------------
(* Routing: WhatsAppClient.handleMessage and server.ts routeMessage        *)

\* a dispatch that recognizes the budget command in every state
ClientBranchBudgetAnywhere(st, m) ==
  LET messageText == toLowerCase(m.body)
  IN  IF st = "active" /\ IsExportPhrase(messageText) THEN "export"
      ELSE IF IsBudgetCmd(messageText) THEN "budget"
      ELSE IF st = "active" /\ IsCurrencyCmd(messageText) THEN "currency"
      ELSE IF st = "active" /\ messageText = txtHelp THEN "help"
      ELSE IF st = "active" /\ messageText = txtReport THEN "report"
      ELSE IF st = "active" /\ startsWith(messageText, txtCorrection) THEN "correction"
      ELSE IF st = "active" /\ IsEditCmd(messageText) THEN "edit"
      ELSE IF st = "active" /\ IsDeleteCmd(messageText) THEN "delete"
      ELSE IF st = "new" THEN "new"
      ELSE IF st = "awaiting_budget" THEN "awaiting_budget"
      ELSE IF st = "awaiting_currency" THEN "awaiting_currency"
      ELSE IF st = "awaiting_currency_change" THEN "awaiting_currency_change"
      ELSE IF st = "awaiting_ocr_confirmation" THEN "awaiting_ocr_confirmation"
      ELSE IF st = "active" /\ m.media = "image" THEN "image"
      ELSE IF st = "active" /\ m.media # "none" THEN "not_image"
      ELSE IF st = "active" /\ trim(m.body) # << >>
        THEN IF HasDigit(trim(m.body)) /\ HasLetter(trim(m.body)) THEN "text" ELSE "fallback"
      ELSE "none"

\* the branch of handleMessage that handles message m of a user in state st
ClientBranch(st, m) ==
  LET messageText == toLowerCase(m.body)
  IN  IF st = "active" /\ IsExportPhrase(messageText) THEN "export"
      ELSE IF st = "active" /\ IsBudgetCmd(messageText) THEN "budget"
      ELSE IF st = "active" /\ IsCurrencyCmd(messageText) THEN "currency"
      ELSE IF st = "active" /\ messageText = txtHelp THEN "help"
      ELSE IF st = "active" /\ messageText = txtReport THEN "report"
      ELSE IF st = "active" /\ startsWith(messageText, txtCorrection) THEN "correction"
      ELSE IF st = "active" /\ IsEditCmd(messageText) THEN "edit"
      ELSE IF st = "active" /\ IsDeleteCmd(messageText) THEN "delete"
      ELSE IF st = "new" THEN "new"
      ELSE IF st = "awaiting_budget" THEN "awaiting_budget"
      ELSE IF st = "awaiting_currency" THEN "awaiting_currency"
      ELSE IF st = "awaiting_currency_change" THEN "awaiting_currency_change"
      ELSE IF st = "awaiting_ocr_confirmation" THEN "awaiting_ocr_confirmation"
      ELSE IF st = "active" /\ m.media = "image" THEN "image"
      ELSE IF st = "active" /\ m.media # "none" THEN "not_image"
      ELSE IF st = "active" /\ trim(m.body) # << >>
        THEN IF HasDigit(trim(m.body)) /\ HasLetter(trim(m.body)) THEN "text" ELSE "fallback"
      ELSE "none"

\* the webhook turns a document into the text "help" before it routes it
makeMessageShim(m) ==
  IF m.media = "document" THEN [m EXCEPT !.body = txtHelp, !.media = "none"] ELSE m

\* the branch of routeMessage that handles message m of a user in state st
ServerBranch(st, m0) ==
  LET m    == makeMessageShim(m0)
      text == toLowerCase(m.body)
  IN  IF st = "active" /\ IsServerExportPhrase(text) THEN "export"
      ELSE IF st = "active" /\ IsBudgetCmd(text) THEN "budget"
      ELSE IF st = "active" /\ IsCurrencyCmd(text) THEN "currency"
      ELSE IF st = "active" /\ text = txtHelp THEN "help"
      ELSE IF st = "new" THEN "new"
      ELSE IF st = "awaiting_budget" THEN "awaiting_budget"
      ELSE IF st = "awaiting_currency" THEN "awaiting_currency"
      ELSE IF st = "awaiting_currency_change" THEN "awaiting_currency_change"
      ELSE IF st = "active" /\ m.media = "image" THEN "image"
      ELSE IF st = "active" /\ trim(m.body) # << >>
        THEN IF HasDigit(trim(m.body)) /\ HasLetter(trim(m.body)) THEN "text" ELSE "fallback"
      ELSE "none"

\* the calendar day is stamped on an expense when a handler runs
Dated(expense, day) == IF expense.ok THEN [expense EXCEPT !.date = day] ELSE expense

\* everything the handlers compute from the text of message m alone, under the
\* names of the locals that hold it
MessageFacts(m) ==
  LET text           == trim(m.body)
      correctionText == CorrectionText(m.body)
      hasRef         == RefEnd(m.body) # 0
  IN  [ word                 |-> IF IsYes(m.body) THEN "yes"
                                 ELSE IF IsNo(m.body) THEN "no" ELSE "other",
        detectedCurrency     |-> detectCurrency(m.body),
        numeric              |-> IF text # << >> THEN parseFloat(text) ELSE NaN,
        newBudget            |-> CmdNumber(m.body, txtBudget),
        newCurrency          |-> IF IsCurrencyCmd(toLowerCase(m.body))
                                   THEN detectCurrency(CurrencyWord(m.body))
                                   ELSE NoCurrency,
        expenseData          |-> extractExpenseData(text, NoDate),
        captionExpense       |-> IF text # << >> THEN extractExpenseData(m.body, NoDate)
                                 ELSE NoExpense,
        captionNameHint      |-> captionNameHint(m.body),
        ocrResult            |-> extractExpenseWithConfidence(m.ocr, NoDate),
        correctionText       |-> correctionText,
        correctedExpenseData |-> extractExpenseData(correctionText, NoDate),
        hasRef               |-> hasRef,
        expenseNumber        |-> IF hasRef THEN RefParts(m.body)[1] ELSE 0,
        edit                 |-> IF hasRef THEN EditContent(RefParts(m.body)[2])
                                 ELSE <<FALSE, << >>, NaN>> ]

\* the branch each router takes for message m, by the state of its sender
Routes(m) ==
  [client |->
     [new |-> ClientBranch("new", m),
      awaiting_currency |-> ClientBranch("awaiting_currency", m),
      awaiting_budget |-> ClientBranch("awaiting_budget", m),
      active |-> ClientBranch("active", m),
      awaiting_ocr_confirmation |-> ClientBranch("awaiting_ocr_confirmation", m),
      awaiting_currency_change |-> ClientBranch("awaiting_currency_change", m)],
   server |->
     [new |-> ServerBranch("new", m),
      awaiting_currency |-> ServerBranch("awaiting_currency", m),
      awaiting_budget |-> ServerBranch("awaiting_budget", m),
      active |-> ServerBranch("active", m),
      awaiting_ocr_confirmation |-> ServerBranch("awaiting_ocr_confirmation", m),
      awaiting_currency_change |-> ServerBranch("awaiting_currency_change", m)]]

\* a received message: its content, the branch each router takes for it and what
\* the handlers compute from its text, each computed once
Received(i, m) ==
  [id |-> i, body |-> m.body, media |-> m.media, ocr |-> m.ocr,
   branch |-> Routes(m),
   facts |-> [client |-> MessageFacts(m), server |-> MessageFacts(makeMessageShim(m))]]

Messages == { Received(i, MessageList[i]) : i \in 1..Len(MessageList) }

CurrencyMessages ==
  { Received(Len(MessageList) + i, CurrencyMessageList[i]) : i \in 1..Len(CurrencyMessageList) }

UserMessages ==
  { Received(Len(MessageList) + Len(CurrencyMessageList) + i, UserMessageList[i]) :
      i \in 1..Len(UserMessageList) }

Branch(u, m) == m.branch[router][getUserState(users, u)]

Facts(m) == m.facts[router]

----------------------------------------------------------------------------
(* Replies (history)                                                       *)

NoReply ==
  [user |-> "none", word |-> "other", pre |-> "new", branch |-> "none", reply |-> "none",
   confidence |-> -1, number |-> 0, month |-> 0, total |-> 0, budget |-> 0, remaining |-> 0]

\* a reply that carries no budget summary
Reply(u, word, branch, reply) ==
  [NoReply EXCEPT !.user = u, !.word = word, !.pre = getUserState(users, u),
                  !.branch = branch, !.reply = reply]

\* the numbered summary: number, month total, budget and remaining = budget - total
Summary(u, word, branch, reply, number, monthlyTotal, budget) ==
  [Reply(u, word, branch, reply) EXCEPT
     !.number = number, !.month = monthlyTotal.month, !.total = monthlyTotal.totalAmount,
     !.budget = budget, !.remaining = budget - monthlyTotal.totalAmount]

----------------------------------------------------------------------------
(* Initial state                                                           *)

Init ==
  /\ router \in {"client", "server"}
  /\ today = [month |-> 1, day |-> 1]
  /\ users = [u \in Users |-> NoDoc]
  /\ counters = [u \in Users |-> 0]
  /\ expenses = << >>
  /\ budgets = << >>
  /\ inflight = {}
  /\ issued = [u \in Users |-> << >>]
  /\ deleted = [u \in Users |-> {}]
  /\ last = NoReply
  /\ processed = << >>
  /\ dispatched = << >>
  /\ suspended = {}
  /\ evaluated = NotEvaluated

----------------------------------------------------------------------------
(* Onboarding                                                              *)

\* state new: the welcome message, then setUserState(awaiting_currency)
HandleNew(u, m) ==
  /\ Branch(u, m) = "new"
  /\ users' = setUserState(users, u, "awaiting_currency")
  /\ last' = Reply(u, Facts(m).word, "new", "currency_prompt")
  /\ UNCHANGED <<outside, router, today, counters, expenses, budgets, inflight, issued, deleted>>

\* state awaiting_currency: detectCurrency on the body
HandleAwaitingCurrency(u, m) ==
  /\ Branch(u, m) = "awaiting_currency"
  /\ LET detectedCurrency == Facts(m).detectedCurrency
     IN  IF detectedCurrency # NoCurrency
           THEN /\ users' = setUserState(setUserCurrency(users, u, detectedCurrency),
                                         u, "awaiting_budget")
                /\ last' = Reply(u, Facts(m).word, "awaiting_currency", "budget_prompt")
           ELSE /\ users' = users
                /\ last' = Reply(u, Facts(m).word, "awaiting_currency", "currency_reprompt")
  /\ UNCHANGED <<outside, router, today, counters, expenses, budgets, inflight, issued, deleted>>

\* state awaiting_budget: parseFloat on the trimmed body
HandleAwaitingBudget(u, m) ==
  /\ Branch(u, m) = "awaiting_budget"
  /\ LET numeric == Facts(m).numeric
     IN  IF numeric # NaN
           THEN /\ budgets' = setMonthlyBudgetWithCurrency(budgets, u, today.month, numeric,
                                                           getUserCurrency(users, u))
                /\ users' = setUserState(users, u, "active")
                /\ last' = [Reply(u, Facts(m).word, "awaiting_budget", "budget_set") EXCEPT !.budget = numeric]
           ELSE /\ UNCHANGED <<budgets, users>>
                /\ last' = Reply(u, Facts(m).word, "awaiting_budget", "budget_reprompt")
  /\ UNCHANGED <<outside, router, today, counters, expenses, inflight, issued, deleted>>

----------------------------------------------------------------------------
(* Commands of an active user                                              *)

\* handleBudgetUpdate, and the inlined copy in routeMessage
HandleBudgetUpdate(u, m) ==
  /\ Branch(u, m) = "budget"
  /\ LET newBudget == Facts(m).newBudget
     IN  /\ budgets' = setMonthlyBudgetWithCurrency(budgets, u, today.month, newBudget,
                                                    getUserCurrency(users, u))
         /\ last' = [Reply(u, Facts(m).word, "budget", "budget_set") EXCEPT !.budget = newBudget]
  /\ UNCHANGED <<outside, router, today, users, counters, expenses, inflight, issued, deleted>>

\* handleCurrencyUpdate, and the inlined copy in routeMessage
HandleCurrencyUpdate(u, m) ==
  /\ Branch(u, m) = "currency"
  /\ LET detectedCurrency == Facts(m).newCurrency
     IN  IF detectedCurrency # NoCurrency
           THEN /\ users' = setPendingCurrency(users, u, detectedCurrency)
                /\ last' = Reply(u, Facts(m).word, "currency", "currency_confirm")
           ELSE /\ users' = users
                /\ last' = Reply(u, Facts(m).word, "currency", "invalid_currency")
  /\ UNCHANGED <<outside, router, today, counters, expenses, budgets, inflight, issued, deleted>>

\* export, help and report, the attachment that is no image, the "didn't get that"
\* fallback, and a message no branch takes: none of them writes to storage
HandleReadOnly(u, m) ==
  /\ Branch(u, m) \in {"export", "help", "report", "not_image", "fallback", "none"}
  /\ last' = Reply(u, Facts(m).word, Branch(u, m), Branch(u, m))
  /\ UNCHANGED <<outside, router, today, users, counters, expenses, budgets, inflight,
                 issued, deleted>>

\* state awaiting_currency_change: yes commits the pending currency, no discards it
HandleCurrencyChange(u, m) ==
  /\ Branch(u, m) = "awaiting_currency_change"
  /\ LET confirmed == confirmCurrencyChange(users, u)
     IN  IF Facts(m).word = "yes"
           THEN /\ users' = confirmed[1]
                /\ last' = Reply(u, Facts(m).word, "awaiting_currency_change",
                                 IF confirmed[2] # NoCurrency THEN "currency_changed"
                                 ELSE IF router = "client" THEN "no_pending_currency"
                                 ELSE "none")
         ELSE IF Facts(m).word = "no"
           THEN /\ users' = clearPendingCurrency(users, u)
                /\ last' = Reply(u, Facts(m).word, "awaiting_currency_change", "currency_cancelled")
         ELSE /\ users' = users
              /\ last' = Reply(u, Facts(m).word, "awaiting_currency_change", "yes_no_reprompt")
  /\ UNCHANGED <<outside, router, today, counters, expenses, budgets, inflight, issued, deleted>>

----------------------------------------------------------------------------
(* ExpenseService: adding a record                                         *)

\* the ExpenseSchema validation Expense.create runs: item, price and date are required
ExpenseSchema(expense) ==
  expense.ok /\ expense.item # << >> /\ expense.price # NaN /\ expense.date # NoDate

\* room left under the bound for one more number
CanAdd(u) == counters[u] < MaxSeq

\* addToMongo run to completion: the counter is incremented, then Expense.create
\* stores the document unless validation rejects it
addToMongo(u, expense) ==
  /\ counters' = [counters EXCEPT ![u] = getNextExpenseNumber(counters[u])]
  /\ IF ExpenseSchema(expense)
       THEN /\ expenses' = Append(expenses, ExpenseDoc(u, expense, counters'[u]))
            /\ issued' = [issued EXCEPT ![u] = Append(@, counters'[u])]
       ELSE UNCHANGED <<expenses, issued>>

\* processExpenseMessage up to the counter increment of addToMongo
ProcessExpenseMessage(u, m) ==
  /\ Branch(u, m) = "text"
  /\ LET expenseData == Dated(Facts(m).expenseData, today)
     IN  IF expenseData.ok
           THEN /\ CanAdd(u)
                /\ Cardinality(inflight) < MaxInflight
                /\ counters' = [counters EXCEPT ![u] = getNextExpenseNumber(counters[u])]
                /\ issued' = [issued EXCEPT ![u] = Append(@, counters'[u])]
                /\ inflight' = inflight \cup
                     {[user |-> u, word |-> Facts(m).word, number |-> counters'[u],
                       expense |-> [expenseData EXCEPT
                                      !.currency = getUserCurrency(users, u),
                                      !.price = RoundCents(expenseData.price)]]}
                /\ last' = Reply(u, Facts(m).word, "text", "none")
           ELSE /\ UNCHANGED <<counters, issued, inflight>>
                /\ last' = Reply(u, Facts(m).word, "text", "extract_error")
  /\ UNCHANGED <<outside, router, today, users, expenses, budgets, deleted>>

\* the rest of processExpenseMessage: Expense.create, the totals and the reply
ExpenseCreate(task) ==
  /\ task \in inflight
  /\ inflight' = inflight \ {task}
  /\ expenses' = Append(expenses, ExpenseDoc(task.user, task.expense, task.number))
  /\ last' = Summary(task.user, task.word, "text", "added", task.number,
                     calculateMonthlyTotal(expenses', task.user, task.expense.date),
                     getMonthlyBudget(budgets, task.user, today.month))
  /\ UNCHANGED <<outside, router, today, users, counters, budgets, issued, deleted>>

----------------------------------------------------------------------------
(* ExpenseService: images                                                  *)

\* processImageMessage deciding as if the extraction came before the caption
ImageOutcomeExtractionFirst(u, m) ==
  LET hint        == Facts(m).captionNameHint
      fromCaption == Dated(Facts(m).captionExpense, today)
      ocrResult   == Facts(m).ocrResult
      expense     == Dated(ocrResult.expense, today)
      named       == IF expense.ok /\ hint # << >> THEN [expense EXCEPT !.item = hint]
                     ELSE expense
      gate        == confidenceGate(ocrResult.confidence)
  IN  IF gate = "auto_save" THEN <<"auto_save", named>>
      ELSE IF gate = "confirm" THEN <<"confirm", named>>
      ELSE IF fromCaption.ok THEN <<"caption", fromCaption>>
      ELSE IF hint # << >>
        THEN <<"ask_amount", [ok |-> TRUE, item |-> hint, price |-> 0,
                              currency |-> getUserCurrency(users, u), date |-> today]>>
      ELSE <<"clarify", NoExpense>>

\* what processImageMessage decides: <<outcome, the expense it carries>>
ImageOutcome(u, m) ==
  LET hint        == Facts(m).captionNameHint
      fromCaption == Dated(Facts(m).captionExpense, today)
      ocrResult   == Facts(m).ocrResult
      expense     == Dated(ocrResult.expense, today)
      named       == IF expense.ok /\ hint # << >> THEN [expense EXCEPT !.item = hint]
                     ELSE expense
      gate        == confidenceGate(ocrResult.confidence)
  IN  IF fromCaption.ok THEN <<"caption", fromCaption>>
      ELSE IF gate = "auto_save" THEN <<"auto_save", named>>
      ELSE IF gate = "confirm" THEN <<"confirm", named>>
      ELSE IF hint # << >>
        THEN <<"ask_amount", [ok |-> TRUE, item |-> hint, price |-> 0,
                              currency |-> getUserCurrency(users, u), date |-> today]>>
      ELSE <<"clarify", NoExpense>>

\* processImageMessage
ProcessImageMessage(u, m) ==
  /\ Branch(u, m) = "image"
  /\ LET outcome      == ImageOutcome(u, m)
         userCurrency == getUserCurrency(users, u)
         confidence   == IF outcome[1] = "caption" THEN -1
                         ELSE Facts(m).ocrResult.confidence
         finalExpense == IF outcome[2].ok
                           THEN [outcome[2] EXCEPT !.currency = userCurrency,
                                                   !.price = RoundCents(outcome[2].price)]
                           ELSE NoExpense
     IN  IF outcome[1] \in {"caption", "auto_save"} /\ finalExpense.ok
           THEN /\ CanAdd(u)
                /\ addToMongo(u, finalExpense)
                /\ last' = [Summary(u, Facts(m).word, "image", outcome[1], counters'[u],
                                    calculateMonthlyTotal(expenses', u, finalExpense.date),
                                    getMonthlyBudget(budgets, u, today.month))
                              EXCEPT !.confidence = confidence]
                /\ users' = users
         ELSE IF outcome[1] = "auto_save"
           THEN /\ last' = [Reply(u, Facts(m).word, "image", "none") EXCEPT !.confidence = confidence]
                /\ UNCHANGED <<users, counters, expenses, issued>>
         ELSE IF outcome[1] = "confirm"
           THEN /\ users' = storePendingExpense(users, u, PendingOf(outcome[2], userCurrency))
                /\ last' = [Reply(u, Facts(m).word, "image", "confirm") EXCEPT !.confidence = confidence]
                /\ UNCHANGED <<counters, expenses, issued>>
         ELSE IF outcome[1] = "ask_amount"
           THEN /\ users' = storePendingImageExpenseDraft(users, u, outcome[2])
                /\ last' = [Reply(u, Facts(m).word, "image", "ask_amount") EXCEPT !.confidence = confidence]
                /\ UNCHANGED <<counters, expenses, issued>>
         ELSE /\ last' = [Reply(u, Facts(m).word, "image", "clarify") EXCEPT !.confidence = confidence]
              /\ UNCHANGED <<users, counters, expenses, issued>>
  /\ UNCHANGED <<outside, router, today, budgets, inflight, deleted>>

\* the awaiting_ocr_confirmation branch of handleMessage with handleOCRConfirmation
HandleOCRConfirmation(u, m) ==
  /\ Branch(u, m) = "awaiting_ocr_confirmation"
  /\ LET pendingExpense == getPendingExpense(users, u)
         stamped        == IF pendingExpense.ok
                             THEN [pendingExpense EXCEPT !.currency = getUserCurrency(users, u)]
                             ELSE NoExpense
         safeDate       == IF stamped.ok /\ stamped.date # NoDate THEN stamped.date ELSE today
     IN  IF Facts(m).word = "yes" /\ pendingExpense.ok
           THEN /\ CanAdd(u)
                /\ addToMongo(u, stamped)
                /\ IF ExpenseSchema(stamped)
                     THEN /\ users' = clearPendingExpense(users, u)
                          /\ last' = Summary(u, Facts(m).word, "awaiting_ocr_confirmation", "saved",
                                             counters'[u],
                                             calculateMonthlyTotal(expenses', u, safeDate),
                                             getMonthlyBudget(budgets, u, today.month))
                     ELSE /\ users' = users
                          /\ last' = Reply(u, Facts(m).word, "awaiting_ocr_confirmation", "yes_no_reprompt")
         ELSE IF Facts(m).word = "no"
           THEN /\ users' = clearPendingExpense(users, u)
                /\ last' = Reply(u, Facts(m).word, "awaiting_ocr_confirmation", "retake")
                /\ UNCHANGED <<counters, expenses, issued>>
         ELSE /\ last' = Reply(u, Facts(m).word, "awaiting_ocr_confirmation", "yes_no_reprompt")
              /\ UNCHANGED <<users, counters, expenses, issued>>
  /\ UNCHANGED <<outside, router, today, budgets, inflight, deleted>>

----------------------------------------------------------------------------
(* ExpenseService: correcting, editing and deleting                        *)

\* the positions of the records of user u
RecordsOf(es, u) == { i \in 1..Len(es) : es[i].userId = u }

\* handleCorrection; the record it corrects is the first of a sort on createdAt,
\* a field no record has, so any record of the user may come first
HandleCorrection(u, m) ==
  /\ Branch(u, m) = "correction"
  /\ LET correctionText == Facts(m).correctionText
         corrected      == Dated(Facts(m).correctedExpenseData, today)
     IN  IF correctionText = << >>
           THEN /\ last' = Reply(u, Facts(m).word, "correction", "none")
                /\ expenses' = expenses
         ELSE IF ~corrected.ok
           THEN /\ last' = Reply(u, Facts(m).word, "correction", "correction_parse_error")
                /\ expenses' = expenses
         ELSE IF RecordsOf(expenses, u) = {}
           THEN /\ last' = Reply(u, Facts(m).word, "correction", "no_recent_expense")
                /\ expenses' = expenses
         ELSE \E i \in RecordsOf(expenses, u) :
                /\ expenses' = [expenses EXCEPT ![i] =
                     [@ EXCEPT !.item = corrected.item,
                               !.price = RoundCents(corrected.price),
                               !.currency = getUserCurrency(users, u),
                               !.date = corrected.date]]
                /\ last' = Summary(u, Facts(m).word, "correction", "updated", expenses[i].number,
                                   calculateMonthlyTotal(expenses', u, corrected.date),
                                   getMonthlyBudget(budgets, u, today.month))
  /\ UNCHANGED <<outside, router, today, users, counters, budgets, inflight, issued, deleted>>

\* an update that also clears the record's date
EditUpdateWithDate(doc, edit, userCurrency) ==
  [doc EXCEPT !.item = IF edit[2] # << >> THEN edit[2] ELSE @,
              !.price = RoundCents(edit[3]),
              !.currency = userCurrency,
              !.date = NoDate]

\* the fields findByIdAndUpdate sets in handleExpenseEdit: item, price, currency
EditUpdate(doc, edit, userCurrency) ==
  [doc EXCEPT !.item = IF edit[2] # << >> THEN edit[2] ELSE @,
              !.price = RoundCents(edit[3]),
              !.currency = userCurrency]

\* handleExpenseEdit
HandleExpenseEdit(u, m) ==
  /\ Branch(u, m) = "edit"
  /\ LET expenseNumber == Facts(m).expenseNumber
         i             == FindByNumber(expenses, u, expenseNumber)
         edit          == Facts(m).edit
     IN  IF ~Facts(m).hasRef
           THEN /\ last' = Reply(u, Facts(m).word, "edit", "invalid_edit_format")
                /\ expenses' = expenses
         ELSE IF i = 0
           THEN /\ last' = Reply(u, Facts(m).word, "edit", "not_found")
                /\ expenses' = expenses
         ELSE IF ~edit[1]
           THEN /\ last' = Reply(u, Facts(m).word, "edit", "invalid_edit_format")
                /\ expenses' = expenses
         ELSE /\ expenses' = [expenses EXCEPT ![i] =
                   EditUpdate(@, edit, getUserCurrency(users, u))]
              /\ last' = Summary(u, Facts(m).word, "edit", "updated", expenseNumber,
                                 calculateMonthlyTotal(expenses', u, today),
                                 getMonthlyBudget(budgets, u, today.month))
  /\ UNCHANGED <<outside, router, today, users, counters, budgets, inflight, issued, deleted>>

\* handleExpenseDelete
HandleExpenseDelete(u, m) ==
  /\ Branch(u, m) = "delete"
  /\ LET expenseNumber == Facts(m).expenseNumber
         i             == FindByNumber(expenses, u, expenseNumber)
     IN  IF i = 0
           THEN /\ last' = Reply(u, Facts(m).word, "delete", "not_found")
                /\ UNCHANGED <<expenses, deleted>>
           ELSE /\ expenses' = RemoveAt(expenses, i)
                /\ deleted' = [deleted EXCEPT ![u] = @ \cup {expenseNumber}]
                /\ last' = Summary(u, Facts(m).word, "delete", "deleted", expenseNumber,
                                   calculateMonthlyTotal(expenses', u, expenses[i].date),
                                   getMonthlyBudget(budgets, u, today.month))
  /\ UNCHANGED <<outside, router, today, users, counters, budgets, inflight, issued>>

----------------------------------------------------------------------------
(* The clock and the specification                                         *)

\* the next month begins while no handler is running
Tick ==
  /\ inflight = {}
  /\ today.month < MaxMonth
  /\ today' = [month |-> today.month + 1, day |-> 1]
  /\ last' = NoReply
  /\ UNCHANGED <<outside, router, users, counters, expenses, budgets, inflight, issued, deleted>>

\* one message of one user is routed and handled
Handling ==
  \E u \in Senders, m \in Messages :
    \/ HandleNew(u, m)
    \/ HandleAwaitingCurrency(u, m)
    \/ HandleAwaitingBudget(u, m)
    \/ HandleBudgetUpdate(u, m)
    \/ HandleCurrencyUpdate(u, m)
    \/ HandleReadOnly(u, m)
    \/ HandleCurrencyChange(u, m)
    \/ HandleOCRConfirmation(u, m)
    \/ ProcessImageMessage(u, m)
    \/ ProcessExpenseMessage(u, m)
    \/ HandleCorrection(u, m)
    \/ HandleExpenseEdit(u, m)
    \/ HandleExpenseDelete(u, m)

\* an add in flight reaches its Expense.create
Commit == \E task \in inflight : ExpenseCreate(task)

Next == Handling \/ Commit \/ Tick

Spec == Init /\ [][Next]_vars

\* the behaviours within one month: the handlers without the clock
NextWithinMonth == Handling \/ Commit

SpecWithinMonth == Init /\ [][NextWithinMonth]_vars

\* the behaviours in which records are created, corrected, edited and deleted:
\* onboarding and the handlers that write records, without the clock
NextRecords ==
  \/ \E u \in Senders, m \in Messages :
       \/ HandleNew(u, m)
       \/ HandleAwaitingCurrency(u, m)
       \/ HandleAwaitingBudget(u, m)
       \/ ProcessExpenseMessage(u, m)
       \/ ProcessImageMessage(u, m)
       \/ HandleOCRConfirmation(u, m)
       \/ HandleCorrection(u, m)
       \/ HandleExpenseEdit(u, m)
       \/ HandleExpenseDelete(u, m)
  \/ Commit

SpecRecords == Init /\ [][NextRecords]_vars

\* the behaviours in which the preferred currency is set and changed and text
\* expenses are added: onboarding, the currency command and its confirmation,
\* the text add, without the clock
NextCurrency ==
  \/ \E u \in Senders, m \in CurrencyMessages :
       \/ HandleNew(u, m)
       \/ HandleAwaitingCurrency(u, m)
       \/ HandleAwaitingBudget(u, m)
       \/ HandleCurrencyUpdate(u, m)
       \/ HandleCurrencyChange(u, m)
       \/ ProcessExpenseMessage(u, m)
  \/ Commit

SpecCurrency == Init /\ [][NextCurrency]_vars

----------------------------------------------------------------------------
(* Storage calls that reject                                               *)

\* Expense.create rejects and processExpenseMessage answers a summary all the same
ExpenseCreateFailsAdded(task) ==
  /\ task \in inflight
  /\ inflight' = inflight \ {task}
  /\ last' = Summary(task.user, task.word, "text", "added", task.number,
                     calculateMonthlyTotal(expenses, task.user, task.expense.date),
                     getMonthlyBudget(budgets, task.user, today.month))
  /\ UNCHANGED <<outside, router, today, users, counters, expenses, budgets, issued, deleted>>

\* processExpenseMessage when Expense.create rejects: the catch sends the error
\* text and rethrows; the number taken by getNextExpenseNumber stays taken
ExpenseCreateFails(task) ==
  /\ task \in inflight
  /\ inflight' = inflight \ {task}
  /\ last' = Reply(task.user, task.word, "text", "add_error")
  /\ UNCHANGED <<outside, router, today, users, counters, expenses, budgets, issued, deleted>>

\* handleOCRConfirmation when Expense.create rejects in the yes branch: the
\* counter is incremented, the catch returns false and the caller re-prompts
HandleOCRConfirmationFails(u, m) ==
  /\ Branch(u, m) = "awaiting_ocr_confirmation"
  /\ Facts(m).word = "yes"
  /\ getPendingExpense(users, u).ok
  /\ CanAdd(u)
  /\ counters' = [counters EXCEPT ![u] = getNextExpenseNumber(counters[u])]
  /\ last' = Reply(u, Facts(m).word, "awaiting_ocr_confirmation", "yes_no_reprompt")
  /\ UNCHANGED <<outside, router, today, users, expenses, budgets, inflight, issued, deleted>>

\* handleCorrection when Expense.findByIdAndUpdate rejects
HandleCorrectionFails(u, m) ==
  /\ Branch(u, m) = "correction"
  /\ Facts(m).correctionText # << >>
  /\ Facts(m).correctedExpenseData.ok
  /\ RecordsOf(expenses, u) # {}
  /\ last' = Reply(u, Facts(m).word, "correction", "correction_error")
  /\ UNCHANGED <<outside, router, today, users, counters, expenses, budgets, inflight,
                 issued, deleted>>

\* handleExpenseEdit when Expense.findByIdAndUpdate rejects
HandleExpenseEditFails(u, m) ==
  /\ Branch(u, m) = "edit"
  /\ Facts(m).hasRef
  /\ FindByNumber(expenses, u, Facts(m).expenseNumber) # 0
  /\ Facts(m).edit[1]
  /\ last' = Reply(u, Facts(m).word, "edit", "edit_error")
  /\ UNCHANGED <<outside, router, today, users, counters, expenses, budgets, inflight,
                 issued, deleted>>

\* the behaviours in which records are written and any of the writes may reject
NextFailures ==
  \/ \E u \in Senders, m \in Messages :
       \/ HandleNew(u, m)
       \/ HandleAwaitingCurrency(u, m)
       \/ HandleAwaitingBudget(u, m)
       \/ ProcessExpenseMessage(u, m)
       \/ ProcessImageMessage(u, m)
       \/ HandleOCRConfirmation(u, m)
       \/ HandleOCRConfirmationFails(u, m)
       \/ HandleCorrection(u, m)
       \/ HandleCorrectionFails(u, m)
       \/ HandleExpenseEdit(u, m)
       \/ HandleExpenseEditFails(u, m)
  \/ Commit
  \/ \E task \in inflight : ExpenseCreateFails(task)

SpecFailures == Init /\ [][NextFailures]_vars

----------------------------------------------------------------------------
(* Handlers taken one storage call at a time                               *)

\* handleBudgetUpdate up to the query phase of the upsert in
\* setMonthlyBudgetWithCurrency: Budget has no unique index on (userId, month),
\* so the insert that follows a query without a match is not held back by
\* another upsert that inserts in between
BudgetUpsertQuery(u, m) ==
  /\ Branch(u, m) = "budget"
  /\ Cardinality(suspended) < MaxSuspended
  /\ suspended' = suspended \cup
       {[at |-> "budget_upsert", user |-> u, word |-> Facts(m).word,
         month |-> today.month, budget |-> Facts(m).newBudget,
         currency |-> getUserCurrency(users, u),
         matched |-> BudgetIndex(budgets, u, today.month) # 0]}
  /\ last' = Reply(u, Facts(m).word, "budget", "none")
  /\ UNCHANGED <<evaluated, processed, dispatched, router, today, users, counters, expenses, budgets,
                 inflight, issued, deleted>>

\* the write phase of the upsert and the rest of handleBudgetUpdate: the matched
\* document is updated, or a document is inserted when the query matched none
BudgetUpsertWrite(task) ==
  /\ task \in suspended
  /\ task.at = "budget_upsert"
  /\ suspended' = suspended \ {task}
  /\ budgets' = IF task.matched
                  THEN setMonthlyBudgetWithCurrency(budgets, task.user, task.month,
                                                    task.budget, task.currency)
                  ELSE Append(budgets, [userId |-> task.user, month |-> task.month,
                                        budget |-> task.budget, currency |-> task.currency])
  /\ last' = [Reply(task.user, task.word, "budget", "budget_set") EXCEPT !.budget = task.budget]
  /\ UNCHANGED <<evaluated, processed, dispatched, router, today, users, counters, expenses,
                 inflight, issued, deleted>>

\* the behaviours of the budget records: onboarding, the budget command as one
\* step and as two, and the clock
NextBudgets ==
  \/ \E u \in Senders, m \in Messages :
       \/ HandleNew(u, m)
       \/ HandleAwaitingCurrency(u, m)
       \/ HandleAwaitingBudget(u, m)
       \/ HandleBudgetUpdate(u, m)
       \/ BudgetUpsertQuery(u, m)
  \/ \E task \in suspended : BudgetUpsertWrite(task)
  \/ Tick

SpecBudgets == Init /\ [][NextBudgets]_vars

\* the behaviours of two users side by side: onboarding, the budget command,
\* the image with its confirmation, the edit and the delete by number, in every
\* interleaving of the two users' messages
NextUsers ==
  \/ \E u \in Users, m \in UserMessages :
       \/ HandleNew(u, m)
       \/ HandleAwaitingCurrency(u, m)
       \/ HandleAwaitingBudget(u, m)
       \/ HandleBudgetUpdate(u, m)
       \/ ProcessImageMessage(u, m)
       \/ HandleOCRConfirmation(u, m)
       \/ HandleExpenseEdit(u, m)
       \/ HandleExpenseDelete(u, m)

SpecUsers == Init /\ [][NextUsers]_vars

----------------------------------------------------------------------------
(* The outside: duplicate deliveries                                     *)

\* the size above which each router trims its processed set, and how many of
\* the oldest ids the trim deletes
TrimAbove == [client |-> 1000, server |-> 2000]

TrimCount == [client |-> 500, server |-> 1000]

Recorded(ids, id) == \E k \in 1..Len(ids) : ids[k] = id

\* a set that is never added to
RecordNothing(ids, id, part) == ids

\* processedMessages.add(id) and the clean-up that follows it
RecordProcessed(ids, id, part) ==
  LET added == Append(ids, id)
  IN  IF Len(added) > TrimAbove[part]
        THEN SubSeq(added, TrimCount[part] + 1, Len(added))
        ELSE added

\* a message id never delivered before
FreshId == Len(dispatched) + 1

\* the ids a delivery may carry: a new one, the one delivered first and the one
\* recorded last
DeliveredIds ==
  {FreshId} \cup (IF dispatched = << >> THEN {} ELSE {1, dispatched[Len(dispatched)]})

\* handleMessage and the webhook POST handler up to the call of the router: a
\* recorded id is skipped; a new one is recorded, the set is trimmed and the
\* message is handed to the router
Deliver(id) ==
  /\ Len(dispatched) < TrimAbove[router] + MaxPastTrim
  /\ IF Recorded(processed, id)
       THEN /\ last' = [NoReply EXCEPT !.reply = "duplicate_skipped"]
            /\ UNCHANGED <<processed, dispatched>>
       ELSE /\ processed' = RecordProcessed(processed, id, router)
            /\ dispatched' = Append(dispatched, id)
            /\ last' = [NoReply EXCEPT !.reply = "routed"]
  /\ UNCHANGED <<evaluated, suspended, router, today, users, counters, expenses, budgets, inflight,
                 issued, deleted>>

NextTransport == \E id \in DeliveredIds : Deliver(id)

SpecTransport == Init /\ [][NextTransport]_vars

----------------------------------------------------------------------------
(* The pure functions applied to sample arguments                          *)

\* calculateDynamicDailyLimit on some day of some month
EvalDailyLimit ==
  /\ \E remainingBudget \in RemainingSamples, lastDayOfMonth \in LastDays :
       \E date \in 1..lastDayOfMonth :
         evaluated' = [fn     |-> "calculateDynamicDailyLimit",
                       args   |-> <<remainingBudget, date, lastDayOfMonth>>,
                       result |-> calculateDynamicDailyLimit(remainingBudget, date,
                                                             lastDayOfMonth)]
  /\ UNCHANGED <<processed, dispatched, suspended, router, today, users, counters, expenses,
                 budgets, inflight, issued, deleted, last>>

SpecDailyLimit == Init /\ [][EvalDailyLimit]_vars

\* the text the parser was applied to last, empty before its first application
ParsedLast == IF evaluated.fn = "extractExpenseData" THEN evaluated.args[1] ELSE << >>

\* extractExpenseData on the empty text, or on the last text with one more character
EvalExtractExpenseData ==
  /\ \E text \in {<< >>} \cup
                 {Append(ParsedLast, c) : c \in IF Len(ParsedLast) < MaxText THEN TextChars ELSE {}} :
       evaluated' = [fn     |-> "extractExpenseData",
                     args   |-> <<text>>,
                     result |-> extractExpenseData(text, today)]
  /\ UNCHANGED <<processed, dispatched, suspended, router, today, users, counters, expenses,
                 budgets, inflight, issued, deleted, last>>

SpecExtract == Init /\ [][EvalExtractExpenseData]_vars

----------------------------------------------------------------------------
(* The currency step of onboarding, one storage call at a time             *)

\* state awaiting_currency with a currency in the body, up to the first await:
\* setUserCurrency has stored the currency, setUserState is still to run
CurrencyStored(u, m) ==
  /\ Branch(u, m) = "awaiting_currency"
  /\ Facts(m).detectedCurrency # NoCurrency
  /\ Cardinality(suspended) < MaxSuspended
  /\ users' = setUserCurrency(users, u, Facts(m).detectedCurrency)
  /\ suspended' = suspended \cup {[at |-> "state_write", user |-> u, word |-> Facts(m).word]}
  /\ last' = Reply(u, Facts(m).word, "awaiting_currency", "none")
  /\ UNCHANGED <<evaluated, processed, dispatched, router, today, counters, expenses, budgets,
                 inflight, issued, deleted>>

\* the handler resumes: setUserState(userId, 'awaiting_budget'), then the budget prompt
StateWritten(task) ==
  /\ task.at = "state_write"
  /\ suspended' = suspended \ {task}
  /\ users' = setUserState(users, task.user, "awaiting_budget")
  /\ last' = Reply(task.user, task.word, "awaiting_currency", "budget_prompt")
  /\ UNCHANGED <<evaluated, processed, dispatched, router, today, counters, expenses, budgets,
                 inflight, issued, deleted>>

\* setUserState rejects: nothing further is written, the router's catch sends its
\* error text
StateWriteFails(task) ==
  /\ task.at = "state_write"
  /\ suspended' = suspended \ {task}
  /\ last' = Reply(task.user, task.word, "awaiting_currency", "error")
  /\ UNCHANGED <<evaluated, processed, dispatched, router, today, users, counters, expenses,
                 budgets, inflight, issued, deleted>>

\* onboarding with the currency step split at its await, beside the handlers a
\* second message of the user can reach meanwhile
NextOnboarding ==
  \/ \E u \in Senders, m \in Messages :
       \/ HandleNew(u, m)
       \/ HandleAwaitingCurrency(u, m)
       \/ CurrencyStored(u, m)
       \/ HandleAwaitingBudget(u, m)
       \/ HandleBudgetUpdate(u, m)
       \/ HandleReadOnly(u, m)
       \/ ProcessExpenseMessage(u, m)
  \/ \E task \in suspended : StateWritten(task) \/ StateWriteFails(task)
  \/ Commit

SpecOnboarding == Init /\ [][NextOnboarding]_vars

----------------------------------------------------------------------------
(* The yes branch of handleOCRConfirmation, one part at a time             *)

\* the yes branch up to the reply: the draft is read and stamped, addToMongo has
\* stored the record; the reply and clearPendingExpense are still to run
DraftSaved(u, m) ==
  /\ Branch(u, m) = "awaiting_ocr_confirmation"
  /\ Facts(m).word = "yes"
  /\ Cardinality(suspended) < MaxSuspended
  /\ LET pendingExpense == getPendingExpense(users, u)
         stamped        == IF pendingExpense.ok
                             THEN [pendingExpense EXCEPT !.currency = getUserCurrency(users, u)]
                             ELSE NoExpense
     IN  /\ pendingExpense.ok
         /\ ExpenseSchema(stamped)
         /\ CanAdd(u)
         /\ addToMongo(u, stamped)
         /\ suspended' = suspended \cup
              {[at |-> "confirmation_reply", user |-> u, word |-> Facts(m).word,
                number |-> counters'[u], date |-> stamped.date]}
  /\ last' = Reply(u, Facts(m).word, "awaiting_ocr_confirmation", "none")
  /\ UNCHANGED <<evaluated, processed, dispatched, router, today, users, budgets, inflight,
                 deleted>>

\* the summary is sent and clearPendingExpense runs; the handlers of this draft
\* that ended in the catch are forgotten with it
ConfirmationSent(task) ==
  /\ task.at = "confirmation_reply"
  /\ suspended' = {t \in suspended \ {task} :
                     ~(t.user = task.user /\ t.at = "confirmation_failed")}
  /\ users' = clearPendingExpense(users, task.user)
  /\ last' = Summary(task.user, task.word, "awaiting_ocr_confirmation", "saved", task.number,
                     calculateMonthlyTotal(expenses, task.user, task.date),
                     getMonthlyBudget(budgets, task.user, today.month))
  /\ UNCHANGED <<evaluated, processed, dispatched, router, today, counters, expenses, budgets,
                 inflight, issued, deleted>>

\* sendMessage rejects: the catch returns false and the caller re-prompts; the
\* draft stays stored and the handler is kept as the history of its record
ConfirmationSendFails(task) ==
  /\ task.at = "confirmation_reply"
  /\ suspended' = (suspended \ {task}) \cup {[task EXCEPT !.at = "confirmation_failed"]}
  /\ last' = Reply(task.user, task.word, "awaiting_ocr_confirmation", "yes_no_reprompt")
  /\ UNCHANGED <<evaluated, processed, dispatched, router, today, users, counters, expenses,
                 budgets, inflight, issued, deleted>>

\* onboarding, images and the replies to a stored draft, with the yes branch
\* split at the reply; a draft ends only by a confirmation that went through
NextConfirmation ==
  \/ \E u \in Senders, m \in Messages :
       \/ HandleNew(u, m)
       \/ HandleAwaitingCurrency(u, m)
       \/ HandleAwaitingBudget(u, m)
       \/ ProcessImageMessage(u, m)
       \/ Facts(m).word \notin {"yes", "no"} /\ HandleOCRConfirmation(u, m)
       \/ DraftSaved(u, m)
  \/ \E task \in suspended : ConfirmationSent(task) \/ ConfirmationSendFails(task)

SpecConfirmation == Init /\ [][NextConfirmation]_vars
----------------------------------------------------------------------------
(* Properties                                                              *)

\* the replies that carry the budget summary
SummaryReplies == {"added", "caption", "auto_save", "saved", "updated", "deleted"}

C2_UniqueNumbers ==
  /\ \A i, j \in 1..Len(expenses) :
       (i # j /\ expenses[i].userId = expenses[j].userId)
         => expenses[i].number # expenses[j].number
  /\ \A t \in inflight :
       /\ \A i \in 1..Len(expenses) :
            expenses[i].userId = t.user => expenses[i].number # t.number
       /\ \A t2 \in inflight : (t2 # t /\ t2.user = t.user) => t2.number # t.number

\* two adds of one user were interleaved: the add that took the later number
\* stored its record first
C2_Witness ==
  /\ Len(expenses) = 2
  /\ expenses[1].userId = expenses[2].userId
  /\ expenses[1].number > expenses[2].number

Documented(pre, word) ==
  CASE pre = "new" -> {"awaiting_currency"}
    [] pre = "awaiting_currency" -> {"awaiting_currency", "awaiting_budget"}
    [] pre = "awaiting_budget" -> {"awaiting_budget", "active"}
    [] pre \in {"awaiting_ocr_confirmation", "awaiting_currency_change"} ->
         IF word \in {"yes", "no"} THEN {"active"} ELSE {pre}
    [] pre = "active" ->
         {"active", "awaiting_ocr_confirmation", "awaiting_currency_change"}

\* C4: every message is taken by a branch of the router, whatever the state of
\* its sender, and the state after it is one the transition table gives
C4_StateMachineClosure ==
  last.user # "none"
    => /\ last.pre \in States
       /\ last.branch # "none"
       /\ getUserState(users, last.user) \in Documented(last.pre, last.word)

\* C5: a user has a pending expense draft only in awaiting_ocr_confirmation and a
\* pending currency only in awaiting_currency_change
C5_PendingOnlyWhileAwaiting ==
  \A u \in Users :
    /\ getPendingExpense(users, u).ok
         => getUserState(users, u) = "awaiting_ocr_confirmation"
    /\ getPendingCurrency(users, u) # NoCurrency
         => getUserState(users, u) = "awaiting_currency_change"

\* C6: once a yes, y, no or n of a user in awaiting_ocr_confirmation or
\* awaiting_currency_change has been handled, the user is active
C6_ConfirmOrCancelReturnsToActive ==
  (/\ last.user # "none"
   /\ last.pre \in {"awaiting_ocr_confirmation", "awaiting_currency_change"}
   /\ last.word \in {"yes", "no"})
    => getUserState(users, last.user) = "active"

\* C7: handling a yes of a user in awaiting_ocr_confirmation appends exactly one
\* record with the draft's item and price, the next number and the user's
\* preferred currency, removes the draft and makes the user active
C7_YesSavesDraft ==
  [][\A u \in Users :
       (/\ getUserState(users, u) = "awaiting_ocr_confirmation"
        /\ last'.user = u
        /\ last'.pre = "awaiting_ocr_confirmation"
        /\ last'.branch # "text"
        /\ last'.word = "yes")
         => /\ expenses' = Append(expenses,
                 [userId |-> u, item |-> users[u].pendingExpense.item,
                  price |-> users[u].pendingExpense.price,
                  currency |-> getUserCurrency(users, u),
                  date |-> users[u].pendingExpense.date,
                  number |-> counters[u] + 1])
            /\ counters'[u] = counters[u] + 1
            /\ ~getPendingExpense(users', u).ok
            /\ getUserState(users', u) = "active"]_vars

\* C8: handling a no of a user in awaiting_ocr_confirmation removes the draft and
\* makes the user active, with the records and the counter unchanged; handling
\* any other reply than yes or no changes neither state, draft, records nor counter
C8_NoDiscardsOtherKeeps ==
  [][\A u \in Users :
       (/\ getUserState(users, u) = "awaiting_ocr_confirmation"
        /\ last'.user = u
        /\ last'.pre = "awaiting_ocr_confirmation"
        /\ last'.branch # "text")
         => /\ last'.word = "no"
                 => /\ ~getPendingExpense(users', u).ok
                    /\ getUserState(users', u) = "active"
                    /\ UNCHANGED <<expenses, counters>>
            /\ last'.word = "other" => UNCHANGED <<users, expenses, counters>>]_vars

C10_GateBoundaries ==
  (last.branch = "image" /\ last.confidence >= 0)
    => /\ last.confidence >= 85 <=> (last.reply = "auto_save" /\ last.number > 0)
       /\ (last.confidence >= 50 /\ last.confidence < 85) <=> last.reply = "confirm"
       /\ last.confidence < 50 <=> last.reply \in {"clarify", "ask_amount"}


----------------------------------------------------------------------------
(* Low-confidence images, captions and reference commands                  *)

\* the user holds the zero-price draft of a low-confidence image
HoldsAmountDraft(us, u) ==
  getPendingExpense(us, u).ok /\ getPendingExpense(us, u).price = 0

\* C11: when an active user who holds the zero-price draft of a low-confidence
\* image sends a bare amount, one record with the draft's item and the typed
\* amount is created and the draft is cleared
C11_AmountResolvesDraft ==
  [][\A u \in Users, m \in Messages :
       (/\ m.media = "none"
        /\ m.body = b100
        /\ getUserState(users, u) = "active"
        /\ HoldsAmountDraft(users, u)
        /\ last'.user = u
        /\ HandleReadOnly(u, m))
       => /\ Len(expenses') = Len(expenses) + 1
          /\ expenses'[Len(expenses')].item = getPendingExpense(users, u).item
          /\ expenses'[Len(expenses')].price = Facts(m).numeric
          /\ ~getPendingExpense(users', u).ok]_vars

\* the step handles an image whose caption the text parser reads as an expense
CaptionStep(u, m) ==
  /\ m.media = "image"
  /\ Facts(m).captionExpense.ok
  /\ ProcessImageMessage(u, m)

\* the record the step appended
Created == expenses'[Len(expenses')]

\* C12 (as stated): an image whose caption parses creates at once a record with
\* exactly the caption's item and price, leaves the user active, and does the
\* same whatever the confidence of the extraction
C12_CaptionTakesPrecedenceExact ==
  [][last'.branch = "image" => \A u \in Users, m \in Messages :
       CaptionStep(u, m)
       => /\ last'.reply = "caption"
          /\ Len(expenses') = Len(expenses) + 1
          /\ Created.item = Facts(m).captionExpense.item
          /\ Created.price = Facts(m).captionExpense.price
          /\ getUserState(users', u) = "active"
          /\ \A m2 \in Messages :
               (m2.media = "image" /\ m2.body = m.body) => ProcessImageMessage(u, m2)]_vars

\* C12 (amended): an image whose caption parses creates at once a record with
\* the caption's item and the caption's price rounded to cents, numbered by the
\* advanced counter, leaves the user active, and does the same whatever the
\* confidence of the extraction
C12_CaptionTakesPrecedence ==
  [][last'.branch = "image" => \A u \in Users, m \in Messages :
       CaptionStep(u, m)
       => /\ last'.reply = "caption"
          /\ Len(expenses') = Len(expenses) + 1
          /\ Created.item = Facts(m).captionExpense.item
          /\ Created.price = RoundCents(Facts(m).captionExpense.price)
          /\ Created.number = counters'[u]
          /\ getUserState(users', u) = "active"
          /\ getPendingExpense(users', u) = getPendingExpense(users, u)
          /\ \A m2 \in Messages :
               (m2.media = "image" /\ m2.body = m.body) => ProcessImageMessage(u, m2)]_vars

\* a captioned image was saved from its caption although the extraction read
\* another expense from the picture
C12_Witness ==
  /\ last.branch = "image"
  /\ last.reply = "caption"
  /\ Len(expenses) = 2
  /\ expenses[2].item # ocrItem
  /\ expenses[2].price = 10000

\* the step is the handling of the text message m of the active user u by a
\* handler that a '#<N> ...' text can reach
ReferenceStep(u, m) ==
  /\ m.media = "none"
  /\ Facts(m).hasRef
  /\ getUserState(users, u) = "active"
  /\ last'.user = u
  /\ \/ HandleExpenseEdit(u, m)
     \/ HandleExpenseDelete(u, m)
     \/ ProcessExpenseMessage(u, m)
     \/ HandleReadOnly(u, m)

\* the text of m is '#<N> <rest>' with a rest that is neither 'edit <number>',
\* 'delete' nor an 'item price' expression
MalformedReference(m) ==
  /\ ~Facts(m).edit[1]
  /\ ~IsDeleteCmd(toLowerCase(m.body))

\* C13: a '#<N> <rest>' message of an active user whose rest is neither an edit,
\* a delete nor an 'item price' expression is answered with a format error and
\* changes neither the records nor the counter
C13_MalformedReferenceRejected ==
  [][\A u \in Users, m \in Messages :
       (MalformedReference(m) /\ ReferenceStep(u, m))
       => /\ last'.reply = "invalid_edit_format"
          /\ expenses' = expenses
          /\ counters' = counters]_vars

\* C14: a message starting with '#<N> delete' that names a stored record removes
\* exactly that record and leaves the counter alone
C14_DeleteRemovesExactlyThatRecord ==
  [][\A u \in Users, m \in Messages :
       (/\ IsDeleteCmd(toLowerCase(m.body))
        /\ FindByNumber(expenses, u, Facts(m).expenseNumber) # 0
        /\ ReferenceStep(u, m))
       => /\ expenses' = RemoveAt(expenses, FindByNumber(expenses, u, Facts(m).expenseNumber))
          /\ counters' = counters
          /\ last'.reply = "deleted"]_vars

\* user u has a stored record numbered n
HasRecord(es, u, n) == \E i \in 1..Len(es) : es[i].userId = u /\ es[i].number = n

\* the step is handleExpenseEdit or handleExpenseDelete handling message m of user u
EditOrDeleteStep(u, m) ==
  /\ Facts(m).hasRef
  /\ last'.user = u
  /\ (HandleExpenseEdit(u, m) \/ HandleExpenseDelete(u, m))

PriceEditForm(rest) ==
  startsWith(toLowerCase(rest), txtEditSp) /\ CmdNumber(rest, txtEdit) # NaN

\* the text after '#<N>' is an 'item price' expression
FullEditForm(rest) ==
  ~startsWith(toLowerCase(rest), txtEditSp) /\ extractExpenseData(rest, NoDate).ok

Changed == { j \in 1..Len(expenses) : expenses'[j] # expenses[j] }

\* C17: handleExpenseEdit changes no record but the one it names and leaves that
\* record's date and number alone; handleCorrection changes at most one record
\* and leaves its number alone; neither changes the number of records, the
\* counter or the user's state
C17_EditAndCorrectionFrame ==
  [][last'.branch \in {"edit", "correction"} => \A u \in Users, m \in Messages :
       (last'.user = u /\ (HandleExpenseEdit(u, m) \/ HandleCorrection(u, m)))
       => /\ Len(expenses') = Len(expenses)
          /\ counters' = counters
          /\ getUserState(users', u) = getUserState(users, u)
          /\ Cardinality(Changed) <= 1
          /\ \A j \in Changed :
               /\ expenses'[j].number = expenses[j].number
               /\ expenses'[j].userId = u
               /\ last'.branch = "edit" =>
                    /\ expenses[j].number = Facts(m).expenseNumber
                    /\ expenses'[j].date = expenses[j].date]_vars

\* record 1 of two records was edited by number: its price is the edited one
\* and record 2 is still there
C17_Witness ==
  /\ last.branch = "edit"
  /\ last.reply = "updated"
  /\ last.number = 1
  /\ Len(expenses) = 2
  /\ expenses[1].number = 1
  /\ expenses[1].price = 150000
  /\ expenses[2].number = 2

\* C18: a correction changes the record the user created last (the records are
\* kept in the order of their creation) and no other record
C18_CorrectionUpdatesMostRecent ==
  [][last'.branch = "correction" => \A u \in Users, m \in Messages :
       (last'.user = u /\ HandleCorrection(u, m))
       => /\ Len(expenses') = Len(expenses)
          /\ Changed \subseteq {Len(expenses)}]_vars

\* the replies of the handlers that are no add and no delete
NonWritingBranches ==
  {"budget", "currency", "help", "report", "export", "edit", "correction"}

\* the replies that follow a stored record: a text add, a captioned or
\* auto-saved image, a confirmed draft
AddReplies == {"added", "caption", "auto_save", "saved"}

FirstRecognizer(m) ==
  LET messageText == toLowerCase(m.body)
  IN  IF IsExportPhrase(messageText) \/ IsServerExportPhrase(messageText)
        THEN {"export", "report"}
      ELSE IF IsBudgetCmd(messageText) THEN {"budget"}
      ELSE IF IsCurrencyCmd(messageText) THEN {"currency"}
      ELSE IF messageText = txtHelp THEN {"help"}
      ELSE IF messageText = txtReport THEN {"report"}
      ELSE IF startsWith(messageText, txtCorrection) THEN {"correction"}
      ELSE IF IsEditCmd(messageText) \/ IsDeleteCmd(messageText) THEN {"edit", "delete"}
      ELSE IF m.media = "image" THEN {"image"}
      ELSE IF HasDigit(trim(m.body)) /\ HasLetter(trim(m.body)) THEN {"text"}
      ELSE {"fallback", "none"}

\* the step is the handling of message m of the active user u
ActiveStep(u, m) ==
  /\ getUserState(users, u) = "active"
  /\ last'.user = u
  /\ last'.branch = Branch(u, m)
  /\ \/ HandleReadOnly(u, m)
     \/ HandleBudgetUpdate(u, m)
     \/ HandleCurrencyUpdate(u, m)
     \/ HandleCorrection(u, m)
     \/ HandleExpenseEdit(u, m)
     \/ HandleExpenseDelete(u, m)
     \/ ProcessImageMessage(u, m)
     \/ ProcessExpenseMessage(u, m)

\* C20: a text or an image of an active user is handled by the first recognizer
\* it matches in the order export/report phrases, budget, currency, help,
\* report, correction, #N reference commands, image, item+amount text, fallback
C20_FirstRecognizerHandles ==
  [][\A u \in Users, m \in Messages :
       (m.media \in {"none", "image"} /\ ActiveStep(u, m))
       => last'.branch \in FirstRecognizer(m)]_vars

----------------------------------------------------------------------------
(* Onboarding, currency changes and what an add stores                     *)

\* the text of m has the shape of a command of the active state or of a
\* free-text expense
CommandShaped(m) ==
  /\ m.media = "none"
  /\ FirstRecognizer(m) \subseteq
       {"export", "report", "budget", "currency", "correction", "edit", "delete", "text"}

\* the command-shaped texts among the messages tried
CommandMessages == { m \in Messages : CommandShaped(m) }

\* the step is the handling of message m of user u by whichever handler the
\* router chose
Handled(u, m) ==
  /\ last'.user = u
  /\ last'.branch = Branch(u, m)
  /\ \/ HandleNew(u, m)
     \/ HandleAwaitingCurrency(u, m)
     \/ HandleAwaitingBudget(u, m)
     \/ HandleBudgetUpdate(u, m)
     \/ HandleCurrencyUpdate(u, m)
     \/ HandleReadOnly(u, m)
     \/ HandleCurrencyChange(u, m)
     \/ HandleOCRConfirmation(u, m)
     \/ ProcessImageMessage(u, m)
     \/ ProcessExpenseMessage(u, m)
     \/ HandleCorrection(u, m)
     \/ HandleExpenseEdit(u, m)
     \/ HandleExpenseDelete(u, m)

\* C21: a command-shaped text is neither yes nor no, and the handling of such a
\* message of a user who is not active changes no record, no counter and no add
\* in flight; it changes a budget only as the answer awaiting_budget waits for
\* and the preferred currency only as the answer awaiting_currency waits for,
\* and it leaves the pending currency alone
C21_CommandsOnlyWhenActive ==
  [][/\ \A m \in CommandMessages : Facts(m).word = "other"
     /\ \A u \in Users :
          (/\ last'.user = u
           /\ last'.pre # "active"
           /\ last'.word = "other"
           /\ last'.reply # "added"
           /\ getUserState(users, u) = last'.pre)
          => /\ expenses' = expenses
             /\ counters' = counters
             /\ inflight' = inflight
             /\ budgets' # budgets => last'.pre = "awaiting_budget"
             /\ getUserCurrency(users', u) # getUserCurrency(users, u)
                  => last'.pre = "awaiting_currency"
             /\ getPendingCurrency(users', u) = getPendingCurrency(users, u)]_vars

\* a text that is neither yes nor no was answered with the yes/no prompt while
\* a currency change was pending and a record was stored
C21_Witness ==
  /\ last.pre = "awaiting_currency_change"
  /\ last.word = "other"
  /\ last.reply = "yes_no_reprompt"
  /\ Len(expenses) >= 1
  /\ getUserState(users, last.user) = "awaiting_currency_change"

\* C22: the first message of a user without a stored profile, whatever it is,
\* is answered with the currency prompt and leaves the user in
\* awaiting_currency; it stores no currency, no draft, no budget and no record
C22_FirstMessageOnlyPrompts ==
  [][last'.pre = "new" => \A u \in Users, m \in Messages :
       (~users[u].exists /\ Handled(u, m))
       => /\ last'.reply = "currency_prompt"
          /\ users' = [users EXCEPT ![u] = [NoDoc EXCEPT !.exists = TRUE,
                                                        !.state = "awaiting_currency"]]
          /\ budgets' = budgets
          /\ expenses' = expenses
          /\ counters' = counters
          /\ inflight' = inflight]_vars

\* the first message was a yes and the user is asked for a currency
C22_Witness ==
  /\ last.pre = "new"
  /\ last.word = "yes"
  /\ last.reply = "currency_prompt"
  /\ getUserState(users, last.user) = "awaiting_currency"
  /\ users[last.user].currency = NoCurrency
  /\ budgets = << >>

\* C23: in awaiting_currency a message in which the resolver finds a currency
\* stores it as the preferred currency and leaves the user in awaiting_budget;
\* a message without one leaves the user's document as it was
C23_CurrencyAnswer ==
  [][last'.pre = "awaiting_currency" => \A u \in Users, m \in Messages :
       (getUserState(users, u) = "awaiting_currency" /\ Handled(u, m))
       => IF detectCurrency(m.body) # NoCurrency
            THEN /\ users'[u].currency = detectCurrency(m.body)
                 /\ getUserState(users', u) = "awaiting_budget"
                 /\ last'.reply = "budget_prompt"
            ELSE /\ users' = users
                 /\ last'.reply = "currency_reprompt"]_vars

\* the answer named a currency: it is stored and the budget is asked for
C23_Witness ==
  /\ last.pre = "awaiting_currency"
  /\ last.reply = "budget_prompt"
  /\ users[last.user].currency = "BDT"
  /\ getUserState(users, last.user) = "awaiting_budget"

\* the text is a bare number: digits with at most one fraction, nothing else
BareNumber(text) == text # << >> /\ NumberEnd(text, 1, {"."}) = Len(text) + 1

\* C24: in awaiting_budget a body that is a bare number b stores the budget b
\* for the current month in the user's currency and makes the user active; any
\* other body stores no budget and leaves the user in awaiting_budget
C24_BudgetAnswer ==
  [][last'.pre = "awaiting_budget" => \A u \in Users, m \in CurrencyMessages :
       (getUserState(users, u) = "awaiting_budget" /\ Handled(u, m))
       => IF BareNumber(trim(m.body))
            THEN /\ getMonthlyBudget(budgets', u, today.month) = parseFloat(trim(m.body))
                 /\ getUserState(users', u) = "active"
            ELSE /\ budgets' = budgets
                 /\ getUserState(users', u) = "awaiting_budget"]_vars

C27_TextAddStampsPreferredCurrency ==
  [][\A u \in Users :
       last'.user = u /\ last'.branch = "text" =>
         /\ \A m \in CurrencyMessages :
              ProcessExpenseMessage(u, m) /\ Facts(m).expenseData.ok =>
                \E task \in inflight' \ inflight :
                  /\ inflight' = inflight \cup {task}
                  /\ task.user = u
                  /\ task.expense.currency = users[u].currency
                  /\ task.expense.price = RoundCents(Facts(m).expenseData.price)
                  /\ task.expense.date = today
                  /\ task.expense.item = Facts(m).expenseData.item
         /\ \A task \in inflight :
              task.user = u /\ ExpenseCreate(task) =>
                expenses' = Append(expenses,
                                   [userId |-> u, item |-> task.expense.item,
                                    price |-> task.expense.price,
                                    currency |-> task.expense.currency,
                                    date |-> task.expense.date, number |-> task.number])]_vars

\* "Tea 5.129 eur" of a user whose preferred currency is BDT has been stored as
\* 5.13 BDT on the processing day
C27_Witness ==
  \E u \in Users :
    /\ last.user = u /\ last.reply = "added"
    /\ users[u].currency = "BDT"
    /\ \E i \in 1..Len(expenses) :
         /\ expenses[i].userId = u /\ expenses[i].number = last.number
         /\ expenses[i].item = <<"T", "e", "a">>
         /\ expenses[i].price = 5130
         /\ expenses[i].currency = "BDT"
         /\ expenses[i].date = today

SuccessReplies == {"added", "saved", "updated"}

\* C29: in the text add, the edit by number, the correction and the OCR
\* confirmation a numbered summary is sent only by a step in which the storage
\* call went through: after "added" or "saved" the record with the number of
\* the summary has just been appended, "updated" is sent by a step that applied
\* the update, and a step in which the call rejects sends none of them
C29_NoSuccessReplyOnFailure ==
  [][\A u \in Users :
       last'.user = u /\ last'.branch \in {"text", "edit", "correction", "awaiting_ocr_confirmation"} =>
         /\ last'.reply \in {"added", "saved"} =>
              /\ Len(expenses') = Len(expenses) + 1
              /\ expenses' = Append(expenses, expenses'[Len(expenses')])
              /\ expenses'[Len(expenses')].userId = u
              /\ expenses'[Len(expenses')].number = last'.number
         /\ last'.reply = "updated" =>
              \E m \in Messages : HandleExpenseEdit(u, m) \/ HandleCorrection(u, m)
         /\ last'.reply \in {"add_error", "edit_error", "correction_error"} =>
              expenses' = expenses
         /\ (\E task \in inflight : task.user = u /\ ExpenseCreateFails(task)) =>
              last'.reply \notin SuccessReplies]_vars

\* a text add whose Expense.create rejected has been answered with the error
\* text: the counter is ahead of the stored records and no record has its number
C29_Witness ==
  \E u \in Users :
    /\ last.user = u /\ last.reply = "add_error"
    /\ counters[u] > 0
    /\ inflight = {}
    /\ \A i \in 1..Len(expenses) : expenses[i].number # counters[u]

\* C30: an add whose record creation fails consumes no number: with no record
\* deleted, every number up to a user's counter belongs to a stored record of
\* the user or to an add of the user that is still on its way to Expense.create
C30_FailedAddConsumesNoNumber ==
  \A u \in Users :
    \A n \in 1..counters[u] :
      \/ \E i \in 1..Len(expenses) : expenses[i].userId = u /\ expenses[i].number = n
      \/ \E task \in inflight : task.user = u /\ task.number = n

----------------------------------------------------------------------------
(* Budgets, users side by side, the transport and the pure functions       *)

\* C31: at every reachable state there is at most one monthly budget record per
\* user and month, also when two budget commands of one user are processed
\* concurrently
C31_OneBudgetPerUserMonth ==
  \A i, j \in 1..Len(budgets) :
    (budgets[i].userId = budgets[j].userId /\ budgets[i].month = budgets[j].month) => i = j

\* what storage holds for user b: the user document with state, preferred
\* currency and pending drafts, the counter, the budgets, the records and the
\* adds on their way to Expense.create
Holdings(b, us, cs, bs, es, fl) ==
  [user     |-> us[b],
   counter  |-> cs[b],
   budgets  |-> SelectSeq(bs, LAMBDA d : d.userId = b),
   records  |-> SelectSeq(es, LAMBDA d : d.userId = b),
   inflight |-> { task \in fl : task.user = b }]

\* C32: a step that handles a message of user a leaves everything storage holds for any other user b as it was
C32_UsersAreIndependent ==
  [][\A a \in Users :
       last'.user = a =>
         \A b \in Users \ {a} :
           Holdings(b, users', counters', budgets', expenses', inflight')
             = Holdings(b, users, counters, budgets, expenses, inflight)]_vars

\* both users hold a record numbered 1, and the edit of one of them has just
\* been answered while the other's record has still the price it was added with
C32_Witness ==
  \E a \in Users, b \in Users :
    /\ a # b
    /\ last.user = a /\ last.reply = "updated" /\ last.number = 1
    /\ \E i, j \in 1..Len(expenses) :
         /\ expenses[i].userId = a /\ expenses[i].number = 1 /\ expenses[i].price = 150000
         /\ expenses[j].userId = b /\ expenses[j].number = 1 /\ expenses[j].price = 80129

\* the ids recorded last, at most n of them, oldest first
MostRecent(n) ==
  SubSeq(dispatched, IF Len(dispatched) > n THEN Len(dispatched) - n + 1 ELSE 1,
         Len(dispatched))

\* the processed set holds the ids recorded last, in the order they were recorded
KeepsNewest == processed = MostRecent(Len(processed))

\* the n ids recorded last are all in the processed set, as its newest entries
HoldsMostRecent(n) ==
  LET recent == MostRecent(n)
  IN  /\ Len(processed) >= Len(recent)
      /\ SubSeq(processed, Len(processed) - Len(recent) + 1, Len(processed)) = recent

\* C33: the processed set holds at most 1000 ids, what it holds are the ids
\* recorded last, so that a trim has removed only the oldest, and each of the
\* 500 ids recorded last is in it
C33_ProcessedSetBounded ==
  /\ Len(processed) <= 1000
  /\ KeepsNewest
  /\ HoldsMostRecent(500)

\* C34: calculateDynamicDailyLimit(r) on day d of a month with L days divides by
\* L - d + 1, a number of days that counts today and is at least 1, and the
\* result is in whole cents and within half a cent of r / (L - d + 1)
C34_DailyLimitCountsToday ==
  evaluated.fn = "calculateDynamicDailyLimit" =>
    LET r    == evaluated.args[1]
        days == evaluated.args[3] - evaluated.args[2] + 1
        diff == evaluated.result * days - r
    IN  /\ days >= 1
        /\ evaluated.result % 10 = 0
        /\ 2 * diff <= 10 * days
        /\ 2 * diff > -10 * days

\* on the last day of a 30-day month the whole of what remains is the limit
C34_Witness ==
  /\ evaluated.fn = "calculateDynamicDailyLimit"
  /\ evaluated.args = <<19870, 30, 30>>
  /\ evaluated.result = 19870

\* s[a..b] is the last numeric token of s: digits with at most one '.' or ','
\* between them, no digit after it, and as long to the left as a token can be
IsLastToken(s, a, b) ==
  LET seps  == {k \in a..b : s[k] \in {".", ","}}
      whole == seps = {}
  IN  /\ 1 <= a /\ a <= b /\ b <= Len(s)
      /\ s[a] \in Digits /\ s[b] \in Digits
      /\ \A k \in a..b : s[k] \in Digits \cup {".", ","}
      /\ Cardinality(seps) <= 1
      /\ \A k \in (b+1)..Len(s) : s[k] \notin Digits
      /\ a > 1 => /\ s[a-1] \notin Digits
                  /\ ~(whole /\ s[a-1] \in {".", ","} /\ a > 2 /\ s[a-2] \in Digits)

RECURSIVE Squeezed(_)
\* s with every run of spaces made one space and none at its end
Squeezed(s) ==
  IF s = << >> THEN << >>
  ELSE IF Head(s) = " " /\ (Len(s) = 1 \/ s[2] = " ") THEN Squeezed(Tail(s))
  ELSE IF Head(s) = " " /\ Squeezed(Tail(s)) = << >> THEN << >>
  ELSE <<Head(s)>> \o Squeezed(Tail(s))

\* s with its runs of spaces made one space and none at either end
Unled(s) == IF s # << >> /\ Head(s) = " " THEN Tail(Squeezed(s)) ELSE Squeezed(s)

Blank(s) == \A k \in 1..Len(s) : s[k] = " "

\* the item of a parse is named after the text before the token, else after the
\* text after it, else by alone
ParsesAs(text, result, alone) ==
  IF Blank(text) \/ ~HasDigit(text) THEN result = NoExpense
  ELSE /\ result.ok
       /\ \E a \in 1..Len(text), b \in 1..Len(text) :
            /\ IsLastToken(text, a, b)
            /\ result.price = NumberMills(ReplaceComma(SubSeq(text, a, b)))
            /\ LET before == SubSeq(text, 1, a - 1)
                   after  == SubSeq(text, b + 1, Len(text))
               IN  result.item = IF ~Blank(before) THEN Unled(before)
                                 ELSE IF ~Blank(after) THEN Unled(after)
                                 ELSE alone

HasBudget(u) == \E i \in 1..Len(budgets) : budgets[i].userId = u

\* C36: a user is in state active only when a monthly budget has been stored
\* for them, also while the currency step of onboarding is in progress and
\* when the state write that follows storing the currency fails
C36_NotActiveBeforeBudget ==
  \A u \in Users : getUserState(users, u) = "active" => HasBudget(u)

\* the numbers of the records made from the draft stored for u, by the handlers
\* that have not cleared it
MadeFromDraft(u) ==
  {t.number : t \in {s \in suspended : s.user = u /\ s.at \in {"confirmation_reply",
                                                               "confirmation_failed"}}}

Onboarded == {"active", "awaiting_ocr_confirmation", "awaiting_currency_change"}

\* C38: a user who has reached active is never moved back to new,
\* awaiting_currency or awaiting_budget; from active only
\* awaiting_ocr_confirmation and awaiting_currency_change are reached
C38_NoWayBackFromActive ==
  [][\A u \in Users : getUserState(users, u) \in Onboarded
                        => getUserState(users', u) \in Onboarded]_vars

\* C39 as stated: a message id is dispatched to the state machine at most once
C39_DispatchedOnce ==
  [][dispatched' # dispatched =>
       ~Recorded(dispatched, dispatched'[Len(dispatched')])]_vars

\* C39 amended: a delivery is dispatched only when the processed set does not
\* hold its id, and the set holds the id from that step on, whatever becomes of
\* the handling
C39_DispatchedOnceWhileRecorded ==
  [][dispatched' # dispatched =>
       LET id == dispatched'[Len(dispatched')]
       IN  /\ dispatched' = Append(dispatched, id)
           /\ ~Recorded(processed, id)
           /\ Recorded(processed', id)]_vars

\* the id dispatched last is delivered again after a trim and is skipped
C39_Witness ==
  /\ last.reply = "duplicate_skipped"
  /\ Len(processed) < Len(dispatched)
  /\ Recorded(processed, dispatched[Len(dispatched)])

\* C40: the monthly total of every summary reply is that of the month whose
\* budget the reply shows, the month of the processing day, also when the
\* record the operation targets is dated in an earlier month
C40_SummaryOfOneMonth ==
  [][today' = today /\ last'.month # 0 => last'.month = today.month]_vars
====
